---- MODULE Spec2Model ----
(***************************************************************************)
(* Model of the ad-copy backend: the generation engine of                  *)
(* app/services/ai_service.py (DeepSeekService), the endpoints of          *)
(* app/api/v1/ads.py and the storage handle of app/core/database.py.       *)
(*                                                                         *)
(* A text is a sequence of characters; a character is a one-character      *)
(* string.  Three characters that cannot be written in a string here are   *)
(* named: "EMDASH" (U+2014), "BULLET" (U+2022) and "BT" (the backtick).    *)
(***************************************************************************)
EXTENDS Integers, Sequences, FiniteSets, TLC

VARIABLES
    api_key,    \* DeepSeekService.api_key is set (a credential is configured)
    database,   \* db.database: "none" (None) or "connected"
    client,     \* db.client: "none" (None) or "connected"
    ads,        \* the documents of the ads collection, oldest first
    pc,         \* position of the generate_ads handler
    req,        \* the AdGenerationRequest being handled
    provider,   \* what the provider call did for this request
    provider_calls, \* times _call_deepseek_api was called for this request
    engine,     \* what generate_ad_variations did: returned a list, or raised
    response,   \* what generate_ads answered
    tasks,      \* background tasks scheduled and not yet run
    bg,         \* what the last background task run did
    call,       \* a call of one helper function: its name and arguments
    ret,        \* what that call returned
    toggling,   \* per server process: the toggle_favorite it is in the middle of
    writes      \* the update_one and delete_one calls the collection has served

vars == <<api_key, database, client, ads, pc, req, provider, provider_calls, engine, response,
          tasks, bg, call, ret, toggling, writes>>

(***************************************************************************)
(* Bounds of the model.                                                    *)
(***************************************************************************)

\* Longest text of the exhaustive checks of the text helpers.
MaxLen == 5

\* Largest limit of the exhaustive checks of _truncate.
MaxLimit == 5

\* Length of the over-long words of the requests and of the provider's entries.
LongLen == 131

\* Entries of the provider's longest variations array.
ReplyEntries == 6

\* Length of the over-long word of a product name.
NameWordLen == 45

\* Values uuid.uuid4() can give for a request id.
MaxRequestId == 1

\* Server processes that share the collection.
MaxWorkers == 2

\* update_one and delete_one calls followed.
MaxWrites == 2

\* Largest limit of a history read.
MaxHistoryLimit == 2

\* init_database is called at most this many times on one db object.
MaxInits == 6

(***************************************************************************)
(* Python's str operations, as the code uses them.                         *)
(***************************************************************************)

\* The characters str.strip(), str.split() and the regex class \s take as
\* whitespace (of those the model's texts use).
Whitespace == {" ", "\t", "\n"}

Digits == {"0", "1", "2", "3", "4", "5", "6", "7", "8", "9"}

SetMin(S) == CHOOSE x \in S : \A y \in S : x <= y

\* min(a, b)
Smaller(a, b) == IF a <= b THEN a ELSE b

\* the largest element, as the smallest of the negated ones
SetMax(S) == 0 - SetMin({0 - x : x \in S})

\* s[a:b] for 0 <= a; a negative b counts from the end, as in Python.
Slice(s, a, b) ==
    LET hi0 == IF b < 0 THEN Len(s) + b ELSE b
        hi  == IF hi0 > Len(s) THEN Len(s) ELSE hi0
    IN  IF hi <= a THEN <<>> ELSE SubSeq(s, a + 1, hi)

\* The first index from i on (1-based) of a character of s that is in C when
\* member holds, and not in C otherwise; Len(s) + 1 when there is none.
scan_up(s, C, member, i) ==
    LET at == {k \in i..Len(s) : (s[k] \in C) = member}
    IN  IF at = {} THEN Len(s) + 1 ELSE SetMin(at)

\* The last such index from i down; 0 when there is none.
scan_down(s, C, member, i) ==
    LET at == {k \in 1..i : (s[k] \in C) = member}
    IN  IF at = {} THEN 0 ELSE SetMax(at)

\* s.strip()
strip(s) ==
    LET b == scan_up(s, Whitespace, FALSE, 1)
        e == scan_down(s, Whitespace, FALSE, Len(s))
    IN  IF b > Len(s) THEN <<>> ELSE SubSeq(s, b, e)

\* s.rfind(c) for a character c: 0-based index of its last occurrence, or -1.
rfind(s, c) == scan_down(s, {c}, TRUE, Len(s)) - 1

\* s.find(pat, start): 0-based index of the first occurrence of pat at or
\* after start, or -1.
find(s, pat, start) ==
    LET at == {i \in start..(Len(s) - Len(pat)) :
                  SubSeq(s, i + 1, i + Len(pat)) = pat}
    IN  IF at = {} THEN -1 ELSE SetMin(at)

\* pat in s
contains(s, pat) == find(s, pat, 0) # -1

\* sep.join(parts)
RECURSIVE join(_, _)
join(sep, parts) ==
    IF parts = <<>> THEN <<>>
    ELSE IF Len(parts) = 1 THEN parts[1]
    ELSE parts[1] \o sep \o join(sep, Tail(parts))

\* s.split(): the maximal runs of non-whitespace characters, in order.
RECURSIVE split_from(_, _)
split_from(s, i) ==
    LET b == scan_up(s, Whitespace, FALSE, i)
        e == scan_up(s, Whitespace, TRUE, b)
    IN  IF b > Len(s) THEN <<>>
        ELSE <<SubSeq(s, b, e - 1)>> \o split_from(s, e)

split(s) == split_from(s, 1)

\* s.lower(): the upper-case letters go to their lower-case ones.
UpperCase == <<"A", "B", "C", "D", "E", "F", "G", "H", "I", "J", "K", "L", "M", "N", "O", "P", "Q", "R", "S", "T", "U", "V", "W", "X", "Y", "Z">>

LowerCase == <<"a", "b", "c", "d", "e", "f", "g", "h", "i", "j", "k", "l", "m", "n", "o", "p", "q", "r", "s", "t", "u", "v", "w", "x", "y", "z">>

lower_char(c) ==
    LET at == {i \in 1..Len(UpperCase) : UpperCase[i] = c}
    IN  IF at = {} THEN c ELSE LowerCase[CHOOSE i \in at : TRUE]

lower(s) == [i \in 1..Len(s) |-> lower_char(s[i])]

\* n copies of the text w, one after the other.
Rep(w, n) == [i \in 1..(n * Len(w)) |-> w[((i - 1) % Len(w)) + 1]]

(***************************************************************************)
(* DeepSeekService._truncate                                               *)
(***************************************************************************)

\* A slip of _truncate: the length test is left out, a text that fits is cut
\* at its last space as well.
_truncate_word(text, max_length) ==
    LET truncated  == Slice(text, 0, max_length)
        last_space == rfind(truncated, " ")
    IN  IF text = <<>> THEN text
        ELSE IF last_space > 0
        THEN strip(Slice(truncated, 0, last_space))
        ELSE strip(truncated)

\* A slip of _truncate: the hard cut is returned without looking for a space.
_truncate_hard(text, max_length) ==
    IF text = <<>> \/ Len(text) <= max_length
    THEN text
    ELSE strip(Slice(text, 0, max_length))

\* A slip of _truncate: the cut is made at the last space of the whole text.
_truncate_late(text, max_length) ==
    IF text = <<>> \/ Len(text) <= max_length
    THEN text
    ELSE LET last_space == rfind(text, " ")
         IN  IF last_space > 0
             THEN strip(Slice(text, 0, last_space))
             ELSE strip(Slice(text, 0, max_length))

_truncate(text, max_length) ==
    IF text = <<>> \/ Len(text) <= max_length
    THEN text
    ELSE LET truncated  == Slice(text, 0, max_length)
             last_space == rfind(truncated, " ")
         IN  IF last_space > 0
             THEN strip(Slice(truncated, 0, last_space))
             ELSE strip(truncated)

(***************************************************************************)
(* app/models/ad.py: the enumerations and the platform table               *)
(***************************************************************************)

PlatformType == {"google_search", "google_display", "meta", "tiktok"}

ToneType == {"Urgent", "Luxury", "Casual", "Trustworthy"}

\* ToneType.value as a text
tone_value(tone) ==
    CASE tone = "Urgent"      -> <<"U", "r", "g", "e", "n", "t">>
      [] tone = "Luxury"      -> <<"L", "u", "x", "u", "r", "y">>
      [] tone = "Casual"      -> <<"C", "a", "s", "u", "a", "l">>
      [] tone = "Trustworthy" -> <<"T", "r", "u", "s", "t", "w", "o", "r", "t", "h", "y">>

PLATFORM_LIMITS ==
    [google_search |->
        [fields |-> [headlines    |-> [max |-> 30, count |-> 3],
                     descriptions |-> [max |-> 90, count |-> 2]],
         soft |-> FALSE],
     google_display |->
        [fields |-> [shortHeadline |-> [max |-> 30, count |-> 1],
                     longHeadline  |-> [max |-> 90, count |-> 1],
                     descriptions  |-> [max |-> 90, count |-> 2]],
         soft |-> FALSE],
     meta |->
        [fields |-> [primary     |-> [max |-> 125, count |-> 1],
                     headline    |-> [max |-> 40, count |-> 1],
                     description |-> [max |-> 30, count |-> 1]],
         soft |-> TRUE],
     tiktok |->
        [fields |-> [caption |-> [max |-> 100, count |-> 1]],
         soft |-> TRUE]]

(***************************************************************************)
(* Values of a variation's text fields.  The fallback generator writes     *)
(* str and list-of-str values; the parser passes on whatever JSON value    *)
(* the provider's reply holds, so both are kept as JSON values.            *)
(***************************************************************************)

Str(s) == [t |-> "str", s |-> s]

List(items) == [t |-> "list", items |-> items]

Dict(m) == [t |-> "dict", m |-> m]

Null == [t |-> "null"]

StrList(texts) == List([i \in 1..Len(texts) |-> Str(texts[i])])

(***************************************************************************)
(* DeepSeekService: the helpers of the fallback generator                  *)
(***************************************************************************)

_get_tone_angle(tone) ==
    CASE tone = "Urgent"      -> <<"T", "o", "d", "a", "y", " ", "o", "n", "l", "y">>
      [] tone = "Luxury"      -> <<"P", "r", "e", "m", "i", "u", "m", " ", "e", "x", "p", "e", "r", "i", "e", "n", "c", "e">>
      [] tone = "Casual"      -> <<"N", "o", " ", "h", "a", "s", "s", "l", "e">>
      [] tone = "Trustworthy" -> <<"T", "r", "u", "s", "t", "e", "d", " ", "c", "h", "o", "i", "c", "e">>
      [] OTHER                -> <<"G", "r", "e", "a", "t", " ", "v", "a", "l", "u", "e">>

_get_proof_element(name, desc) ==
    IF (\E i \in 1..Len(name) : name[i] \in Digits) /\ contains(name, <<"2", "0">>)
    THEN <<"L", "o", "w", " ", "m", "i", "l", "e", "s", ".", " ", "C", "l", "e", "a", "n", " ", "t", "i", "t", "l", "e", ".">>
    ELSE <<"T", "o", "p", "-", "r", "a", "t", "e", "d", " ", "b", "y", " ", "c", "u", "s", "t", "o", "m", "e", "r", "s", ".">>

\* The end (exclusive, 0-based) of the match of the offer pattern
\*   \$[^\s,.]+[^.]*|\d+\s?(?:mo|month|down)      (re.IGNORECASE)
\* that starts at index i of desc, or -1 when none starts there.
offer_match_end(desc, i) ==
    LET n       == Len(desc)
        at(k)   == desc[k + 1]
        dot     == scan_up(desc, {"."}, TRUE, i + 2) - 1
        j       == scan_up(desc, Digits, FALSE, i + 1) - 1
        k0      == IF j < n /\ at(j) \in Whitespace THEN j + 1 ELSE j
        word(w) == k0 + Len(w) <= n /\ lower(Slice(desc, k0, k0 + Len(w))) = w
    IN  IF at(i) = "$"
        THEN IF i + 1 < n /\ at(i + 1) \notin (Whitespace \cup {",", "."})
             THEN dot
             ELSE -1
        ELSE IF at(i) \in Digits
        THEN IF word(<<"m", "o">>) THEN k0 + 2
             ELSE IF word(<<"d", "o", "w", "n">>) THEN k0 + 4
             ELSE -1
        ELSE -1

\* A slip of _extract_offer: the match that starts last is taken.
_extract_offer_last(desc) ==
    LET starts == {i \in 0..(Len(desc) - 1) : offer_match_end(desc, i) # -1}
    IN  IF starts = {}
        THEN <<"S", "p", "e", "c", "i", "a", "l", " ", "p", "r", "i", "c", "i", "n", "g", " ", "a", "v", "a", "i", "l", "a", "b", "l", "e">>
        ELSE LET i == SetMax(starts)
             IN  Slice(desc, i, offer_match_end(desc, i))

\* re.search gives the match that starts first.
_extract_offer(desc) ==
    LET starts == {i \in 0..(Len(desc) - 1) : offer_match_end(desc, i) # -1}
    IN  IF starts = {}
        THEN <<"S", "p", "e", "c", "i", "a", "l", " ", "p", "r", "i", "c", "i", "n", "g", " ", "a", "v", "a", "i", "l", "a", "b", "l", "e">>
        ELSE LET i == SetMin(starts)
             IN  Slice(desc, i, offer_match_end(desc, i))

(***************************************************************************)
(* What a call did: it returned a value, or it raised an exception.        *)
(***************************************************************************)

Return(v) == [kind |-> "return", value |-> v]

Raise(e) == [kind |-> "raise", exc |-> e]

(***************************************************************************)
(* DeepSeekService._create_fallback_variations                             *)
(* ids[i] is what str(uuid.uuid4())[:8] gave in the i-th pass of the loop. *)
(***************************************************************************)

\* request.desc.split('.')[0] if '.' in request.desc else "Get more for less"
\* A slip of the benefit: a description without a period is the benefit.
fallback_benefit_whole(desc) ==
    LET dot == find(desc, <<".">>, 0)
    IN  IF dot # -1 THEN Slice(desc, 0, dot) ELSE desc

fallback_benefit(desc) ==
    LET dot == find(desc, <<".">>, 0)
    IN  IF dot # -1 THEN Slice(desc, 0, dot) ELSE <<"G", "e", "t", " ", "m", "o", "r", "e", " ", "f", "o", "r", " ", "l", "e", "s", "s">>

\* f"For {', '.join(request.audience)}." if request.audience else ""
fallback_aud(audience) ==
    IF audience # <<>>
    THEN <<"F", "o", "r", " ">> \o join(<<",", " ">>, audience) \o <<".">>
    ELSE <<>>

fallback_variation(request, variation_id) ==
    LET angle   == _get_tone_angle(request.tone)
        proof   == _get_proof_element(request.name, request.desc)
        aud     == fallback_aud(request.audience)
        benefit == fallback_benefit(request.desc)
        offer   == _extract_offer(request.desc)
        tone    == tone_value(request.tone)
        dot     == <<".", " ">>
    IN  CASE request.platform = "google_search" ->
               [id |-> variation_id, platform |-> "google_search", tone |-> request.tone,
                headlines |-> StrList(<<
                    _truncate(request.name \o <<" ", "EMDASH", " ">> \o angle, 30),
                    _truncate(benefit, 30),
                    _truncate(<<"I", "n", " ", "S", "t", "o", "c", "k", " ", "BULLET", " ">> \o tone, 30)>>),
                descriptions |-> StrList(<<
                    _truncate(benefit \o dot \o aud \o <<" ">> \o proof, 90),
                    _truncate(offer \o <<".", " ", "V", "i", "s", "i", "t", " ", "n", "o", "w", ".">>, 90)>>)]
          [] request.platform = "google_display" ->
               [id |-> variation_id, platform |-> "google_display", tone |-> request.tone,
                shortHeadline |-> Str(_truncate(request.name, 30)),
                longHeadline |-> Str(_truncate(angle \o <<":", " ">> \o benefit, 90)),
                descriptions |-> StrList(<<
                    _truncate(benefit \o dot \o aud, 90),
                    _truncate(offer \o dot \o proof, 90)>>)]
          [] request.platform = "meta" ->
               [id |-> variation_id, platform |-> "meta", tone |-> request.tone,
                primary |-> Str(_truncate(benefit \o dot \o aud \o <<" ">> \o proof, 125)),
                headline |-> Str(_truncate(request.name \o <<" ", "EMDASH", " ">> \o angle, 40)),
                description |-> Str(_truncate(IF offer # <<>> THEN offer ELSE <<"S", "h", "o", "p", " ", "n", "o", "w">>, 30))]
          [] request.platform = "tiktok" ->
               [id |-> variation_id, platform |-> "tiktok", tone |-> request.tone,
                caption |-> Str(_truncate(
                    angle \o <<"!", " ">> \o benefit \o dot \o offer \o <<" ", "#">>
                        \o split(request.name)[1], 100))]

\* A slip of the loop: one pass too few.
_create_fallback_variations_short(request, ids) ==
    IF request.platform = "tiktok" /\ split(request.name) = <<>>
    THEN Raise("IndexError")
    ELSE Return([i \in 1..(request.variants - 1) |-> fallback_variation(request, ids[i])])

\* request.name.split()[0] raises IndexError when the name holds no word, in
\* the first pass of the loop (variants >= 1), before anything is appended.
\* A slip of the fallback generator: the records after the first differ in
\* their texts.
_create_fallback_variations_varied(request, ids) ==
    IF request.platform = "tiktok" /\ split(request.name) = <<>>
    THEN Raise("IndexError")
    ELSE Return([i \in 1..request.variants |->
            fallback_variation(IF i = 1 THEN request
                               ELSE [request EXCEPT !.name = @ \o <<"2">>], ids[i])])

_create_fallback_variations(request, ids) ==
    IF request.platform = "tiktok" /\ split(request.name) = <<>>
    THEN Raise("IndexError")
    ELSE Return([i \in 1..request.variants |-> fallback_variation(request, ids[i])])

(***************************************************************************)
(* JSON texts and json.loads.  A JSON text of the model is an object       *)
(* written "{" members "}", where one character names the members (the     *)
(* table JsonMembers gives the decoded object), or the empty array "[" "]".*)
(* Whitespace around the text is allowed; anything else is undecodable.    *)
(***************************************************************************)

\* Texts the provider's entries carry.
ShortText == <<"O", "K">>

LongText == Rep(<<"w">>, LongLen)

\* An entry that supplies every field of every platform, within the limits,
\* and keys of its own for id, platform and tone.
EntryFull ==
    Dict([headlines |-> StrList(<<ShortText, ShortText, ShortText>>),
          descriptions |-> StrList(<<ShortText, ShortText>>),
          shortHeadline |-> Str(ShortText), longHeadline |-> Str(ShortText),
          primary |-> Str(ShortText), headline |-> Str(ShortText),
          description |-> Str(ShortText), caption |-> Str(ShortText),
          id |-> Str(ShortText), platform |-> Str(<<"t", "i", "k", "t", "o", "k">>),
          tone |-> Str(<<"U", "r", "g", "e", "n", "t">>)])

\* An entry whose fields break the platform's counts, lengths or types.
EntryOver ==
    Dict([headlines |-> StrList(<<LongText>>), descriptions |-> Null,
          shortHeadline |-> Str(LongText), longHeadline |-> Null,
          primary |-> Str(LongText), headline |-> Str(LongText),
          description |-> Null, caption |-> Str(LongText)])

\* An entry that supplies only some fields.
EntryPart ==
    Dict([headlines |-> StrList(<<ShortText, ShortText, ShortText>>),
          shortHeadline |-> Str(ShortText), primary |-> Str(ShortText)])

EntryEmpty == Dict(<<>>)

\* An entry that is no object.
EntryStr == Str(ShortText)

JsonMembers ==
    [J_NOKEY |-> Dict([note |-> Str(ShortText)]),
     J_NULL  |-> Dict([variations |-> Null]),
     J_TEXT  |-> Dict([variations |-> Str(ShortText)]),
     J_NONE  |-> Dict([variations |-> List(<<>>)]),
     J_FULL  |-> Dict([variations |-> List(<<EntryFull>>)]),
     J_MIXED |-> Dict([variations |-> List(<<EntryPart, EntryEmpty, EntryFull>>)]),
     J_OVER  |-> Dict([variations |-> List(<<EntryOver, EntryFull>>)]),
     J_BAD   |-> Dict([variations |-> List(<<EntryFull, EntryStr>>)]),
     J_MANY  |-> Dict([variations |-> List([i \in 1..ReplyEntries |-> EntryFull])])]

json_loads(text) ==
    LET s == strip(text)
    IN  IF Len(s) = 3 /\ s[1] = "{" /\ s[3] = "}" /\ s[2] \in DOMAIN JsonMembers
        THEN Return(JsonMembers[s[2]])
        ELSE IF s = <<"{", "}">> THEN Return(Dict(<<>>))
        ELSE IF s = <<"[", "]">> THEN Return(List(<<>>))
        ELSE Raise("JSONDecodeError")

(***************************************************************************)
(* DeepSeekService._format_variation                                       *)
(***************************************************************************)

\* var_data.get(key, default), var_data a dict
\* A slip of dict_get: the default is not used, a missing key reads as null.
dict_get_none(d, key, default) == IF key \in DOMAIN d.m THEN d.m[key] ELSE Null

dict_get(d, key, default) == IF key \in DOMAIN d.m THEN d.m[key] ELSE default

DefaultHeadlines == StrList(Rep(<<<<"D", "e", "f", "a", "u", "l", "t", " ", "h", "e", "a", "d", "l", "i", "n", "e">>>>, 3))

DefaultDescriptions == StrList(Rep(<<<<"D", "e", "f", "a", "u", "l", "t", " ", "d", "e", "s", "c", "r", "i", "p", "t", "i", "o", "n">>>>, 2))

\* A slip of _format_variation: the list defaults are one headline and one
\* description text.
_format_variation_short(var_data, platform, tone, variation_id) ==
    CASE platform = "google_search" ->
           [id |-> variation_id, platform |-> "google_search", tone |-> tone,
            headlines |-> dict_get(var_data, "headlines", StrList(<<<<"D", "e", "f", "a", "u", "l", "t", " ", "h", "e", "a", "d", "l", "i", "n", "e">>>>)),
            descriptions |-> dict_get(var_data, "descriptions", Str(<<"D", "e", "f", "a", "u", "l", "t", " ", "d", "e", "s", "c", "r", "i", "p", "t", "i", "o", "n">>))]
      [] platform = "google_display" ->
           [id |-> variation_id, platform |-> "google_display", tone |-> tone,
            shortHeadline |-> dict_get(var_data, "shortHeadline", Str(<<"D", "e", "f", "a", "u", "l", "t", " ", "s", "h", "o", "r", "t">>)),
            longHeadline |-> dict_get(var_data, "longHeadline", Str(<<"D", "e", "f", "a", "u", "l", "t", " ", "l", "o", "n", "g", " ", "h", "e", "a", "d", "l", "i", "n", "e">>)),
            descriptions |-> dict_get(var_data, "descriptions", Str(<<"D", "e", "f", "a", "u", "l", "t", " ", "d", "e", "s", "c", "r", "i", "p", "t", "i", "o", "n">>))]
      [] platform = "meta" ->
           [id |-> variation_id, platform |-> "meta", tone |-> tone,
            primary |-> dict_get(var_data, "primary", Str(<<"D", "e", "f", "a", "u", "l", "t", " ", "p", "r", "i", "m", "a", "r", "y", " ", "t", "e", "x", "t">>)),
            headline |-> dict_get(var_data, "headline", Str(<<"D", "e", "f", "a", "u", "l", "t", " ", "h", "e", "a", "d", "l", "i", "n", "e">>)),
            description |-> dict_get(var_data, "description", Str(<<"D", "e", "f", "a", "u", "l", "t", " ", "d", "e", "s", "c">>))]
      [] platform = "tiktok" ->
           [id |-> variation_id, platform |-> "tiktok", tone |-> tone,
            caption |-> dict_get(var_data, "caption", Str(<<"D", "e", "f", "a", "u", "l", "t", " ", "c", "a", "p", "t", "i", "o", "n", " ", "#", "h", "a", "s", "h", "t", "a", "g">>))]

\* A slip of _format_variation: the tone written is not the one handed in.
_format_variation_urgent(var_data, platform, tone, variation_id) ==
    CASE platform = "google_search" ->
           [id |-> variation_id, platform |-> "google_search", tone |-> "Urgent",
            headlines |-> dict_get(var_data, "headlines", DefaultHeadlines),
            descriptions |-> dict_get(var_data, "descriptions", DefaultDescriptions)]
      [] platform = "google_display" ->
           [id |-> variation_id, platform |-> "google_display", tone |-> "Urgent",
            shortHeadline |-> dict_get(var_data, "shortHeadline", Str(<<"D", "e", "f", "a", "u", "l", "t", " ", "s", "h", "o", "r", "t">>)),
            longHeadline |-> dict_get(var_data, "longHeadline", Str(<<"D", "e", "f", "a", "u", "l", "t", " ", "l", "o", "n", "g", " ", "h", "e", "a", "d", "l", "i", "n", "e">>)),
            descriptions |-> dict_get(var_data, "descriptions", DefaultDescriptions)]
      [] platform = "meta" ->
           [id |-> variation_id, platform |-> "meta", tone |-> "Urgent",
            primary |-> dict_get(var_data, "primary", Str(<<"D", "e", "f", "a", "u", "l", "t", " ", "p", "r", "i", "m", "a", "r", "y", " ", "t", "e", "x", "t">>)),
            headline |-> dict_get(var_data, "headline", Str(<<"D", "e", "f", "a", "u", "l", "t", " ", "h", "e", "a", "d", "l", "i", "n", "e">>)),
            description |-> dict_get(var_data, "description", Str(<<"D", "e", "f", "a", "u", "l", "t", " ", "d", "e", "s", "c">>))]
      [] platform = "tiktok" ->
           [id |-> variation_id, platform |-> "tiktok", tone |-> "Urgent",
            caption |-> dict_get(var_data, "caption", Str(<<"D", "e", "f", "a", "u", "l", "t", " ", "c", "a", "p", "t", "i", "o", "n", " ", "#", "h", "a", "s", "h", "t", "a", "g">>))]

_format_variation(var_data, platform, tone, variation_id) ==
    CASE platform = "google_search" ->
           [id |-> variation_id, platform |-> "google_search", tone |-> tone,
            headlines |-> dict_get(var_data, "headlines", DefaultHeadlines),
            descriptions |-> dict_get(var_data, "descriptions", DefaultDescriptions)]
      [] platform = "google_display" ->
           [id |-> variation_id, platform |-> "google_display", tone |-> tone,
            shortHeadline |-> dict_get(var_data, "shortHeadline", Str(<<"D", "e", "f", "a", "u", "l", "t", " ", "s", "h", "o", "r", "t">>)),
            longHeadline |-> dict_get(var_data, "longHeadline", Str(<<"D", "e", "f", "a", "u", "l", "t", " ", "l", "o", "n", "g", " ", "h", "e", "a", "d", "l", "i", "n", "e">>)),
            descriptions |-> dict_get(var_data, "descriptions", DefaultDescriptions)]
      [] platform = "meta" ->
           [id |-> variation_id, platform |-> "meta", tone |-> tone,
            primary |-> dict_get(var_data, "primary", Str(<<"D", "e", "f", "a", "u", "l", "t", " ", "p", "r", "i", "m", "a", "r", "y", " ", "t", "e", "x", "t">>)),
            headline |-> dict_get(var_data, "headline", Str(<<"D", "e", "f", "a", "u", "l", "t", " ", "h", "e", "a", "d", "l", "i", "n", "e">>)),
            description |-> dict_get(var_data, "description", Str(<<"D", "e", "f", "a", "u", "l", "t", " ", "d", "e", "s", "c">>))]
      [] platform = "tiktok" ->
           [id |-> variation_id, platform |-> "tiktok", tone |-> tone,
            caption |-> dict_get(var_data, "caption", Str(<<"D", "e", "f", "a", "u", "l", "t", " ", "c", "a", "p", "t", "i", "o", "n", " ", "#", "h", "a", "s", "h", "t", "a", "g">>))]

(***************************************************************************)
(* DeepSeekService._parse_ai_response                                      *)
(***************************************************************************)

FenceOpen == <<"BT", "BT", "BT", "j", "s", "o", "n">>

FenceClose == <<"BT", "BT", "BT">>

\* api_response["choices"][0]["message"]["content"]
response_content(api_response) ==
    IF api_response.t # "dict" THEN Raise("TypeError")
    ELSE IF "choices" \notin DOMAIN api_response.m THEN Raise("KeyError")
    ELSE LET choices == api_response.m["choices"]
         IN  IF choices.t # "list" THEN Raise("TypeError")
             ELSE IF choices.items = <<>> THEN Raise("IndexError")
             ELSE LET choice == choices.items[1]
                  IN  IF choice.t # "dict" THEN Raise("TypeError")
                      ELSE IF "message" \notin DOMAIN choice.m THEN Raise("KeyError")
                      ELSE LET message == choice.m["message"]
                           IN  IF message.t # "dict" THEN Raise("TypeError")
                               ELSE IF "content" \notin DOMAIN message.m
                               THEN Raise("KeyError")
                               ELSE Return(message.m["content"])

\* A slip of fence_content: any ``` opens the fence, with or without json.
fence_content_plain(content) ==
    IF contains(content, FenceClose)
    THEN LET json_start == find(content, FenceClose, 0) + 3
             json_end   == find(content, FenceClose, json_start)
         IN  Slice(content, json_start, json_end)
    ELSE content

\* The text handed to json.loads: inside the first ```json fence, or all of it.
\* With no closing fence find gives -1, and content[json_start:-1] drops the
\* last character.
fence_content(content) ==
    IF contains(content, FenceOpen)
    THEN LET json_start == find(content, FenceOpen, 0) + 7
             json_end   == find(content, FenceClose, json_start)
         IN  Slice(content, json_start, json_end)
    ELSE content

\* The try block of _parse_ai_response: the list it builds, or what it raises.
\* A slip of the parser: the last entries are taken, not the first.
parse_try_last(api_response, request, ids) ==
    LET got == response_content(api_response)
    IN  IF got.kind = "raise" THEN got
        ELSE IF got.value.t # "str" THEN Raise("TypeError")
        ELSE LET parsed == json_loads(fence_content(got.value.s))
             IN  IF parsed.kind = "raise" THEN parsed
                 ELSE IF parsed.value.t # "dict" THEN Raise("AttributeError")
                 ELSE LET vs == dict_get(parsed.value, "variations", List(<<>>))
                      IN  IF vs.t = "list"
                          THEN LET cut == Slice(vs.items, Len(vs.items) - Smaller(Len(vs.items), request.variants),
                                            Len(vs.items))
                               IN  IF \E i \in 1..Len(cut) : cut[i].t # "dict"
                                   THEN Raise("AttributeError")
                                   ELSE Return([i \in 1..Len(cut) |->
                                           _format_variation(cut[i], request.platform,
                                                             request.tone, ids[i])])
                          ELSE IF vs.t = "str"
                          THEN IF Slice(vs.s, 0, request.variants) = <<>>
                               THEN Return(<<>>)
                               ELSE Raise("AttributeError")
                          ELSE Raise("TypeError")

parse_try(api_response, request, ids) ==
    LET got == response_content(api_response)
    IN  IF got.kind = "raise" THEN got
        ELSE IF got.value.t # "str" THEN Raise("TypeError")
        ELSE LET parsed == json_loads(fence_content(got.value.s))
             IN  IF parsed.kind = "raise" THEN parsed
                 ELSE IF parsed.value.t # "dict" THEN Raise("AttributeError")
                 ELSE LET vs == dict_get(parsed.value, "variations", List(<<>>))
                      IN  IF vs.t = "list"
                          THEN LET cut == Slice(vs.items, 0, request.variants)
                               IN  IF \E i \in 1..Len(cut) : cut[i].t # "dict"
                                   THEN Raise("AttributeError")
                                   ELSE Return([i \in 1..Len(cut) |->
                                           _format_variation(cut[i], request.platform,
                                                             request.tone, ids[i])])
                          ELSE IF vs.t = "str"
                          THEN IF Slice(vs.s, 0, request.variants) = <<>>
                               THEN Return(<<>>)
                               ELSE Raise("AttributeError")
                          ELSE Raise("TypeError")

\* A slip of the parser: a failed parse gives an empty list.
_parse_ai_response_empty(api_response, request, ids) ==
    LET tried == parse_try(api_response, request, ids)
    IN  IF tried.kind = "raise" THEN Return(<<>>) ELSE tried

_parse_ai_response(api_response, request, ids) ==
    LET tried == parse_try(api_response, request, ids)
    IN  IF tried.kind = "raise"
        THEN _create_fallback_variations(request, ids)
        ELSE tried

(***************************************************************************)
(* DeepSeekService.generate_ad_variations                                  *)
(* call is what the provider call did: it raised, or it returned a body.   *)
(***************************************************************************)

\* A slip of generate_ad_variations: a failed provider call is tried again.
calls_made_retry(key, called) ==
    IF ~key THEN 0 ELSE IF called.kind = "raise" THEN 2 ELSE 1

\* How many times generate_ad_variations calls _call_deepseek_api: not at
\* all without a key, and once in its try otherwise; neither except branch
\* and nothing in _parse_ai_response calls it again.
calls_made(key, called) == IF ~key THEN 0 ELSE 1

generate_ad_variations(key, request, called, ids) ==
    IF ~key
    THEN _create_fallback_variations(request, ids)
    ELSE LET tried == IF called.kind = "raise"
                      THEN called
                      ELSE _parse_ai_response(called.value, request, ids)
         IN  IF tried.kind = "raise"
             THEN _create_fallback_variations(request, ids)
             ELSE tried

(***************************************************************************)
(* The requests of the model.  AdGenerationRequest's Field constraints are *)
(* ValidRequest; every request handed to the engine satisfies them.        *)
(***************************************************************************)

ValidRequest(request) ==
    /\ Len(request.name) >= 1 /\ Len(request.name) <= 100
    /\ Len(request.desc) >= 10 /\ Len(request.desc) <= 500
    /\ request.tone \in ToneType
    /\ request.platform \in PlatformType
    /\ request.variants >= 1 /\ request.variants <= 5

NameCamry == <<"2", "0", "1", "9", " ", "T", "o", "y", "o", "t", "a", " ", "C", "a", "m", "r", "y", " ", "S", "E">>

\* a name of whitespace alone
NameBlank == <<" ">>

NameLong == <<"V", "e", "r", "y", " ", "L", "o", "n", "g", " ", "P", "r", "o", "d", "u", "c", "t", " ", "N", "a", "m", "e", " ", "T", "h", "a", "t", " ", "E", "x", "c", "e", "e", "d", "s", " ", "C", "h", "a", "r", "a", "c", "t", "e", "r", " ", "L", "i", "m", "i", "t", "s", " ", "F", "o", "r", " ", "T", "e", "s", "t", "i", "n", "g", " ", "P", "u", "r", "p", "o", "s", "e", "s">>

\* a name that starts with a space and has no other
NameWord == <<" ">> \o Rep(<<"x">>, NameWordLen)

NameShop == <<"S", "h", "o", "p">>

Names == {NameCamry, NameBlank, NameLong, NameWord, NameShop}

DescCamry == <<"C", "l", "e", "a", "n", " ", "C", "a", "r", "F", "a", "x", ",", " ", "6", "2", "k", " ", "m", "i", "l", "e", "s", ",", " ", "A", "p", "p", "l", "e", " ", "C", "a", "r", "P", "l", "a", "y", ",", " ", "3", "5", " ", "M", "P", "G", ",", " ", "$", "2", "8", "9", "/", "m", "o", " ", "w", "i", "t", "h", " ", "a", "p", "p", "r", "o", "v", "e", "d", " ", "c", "r", "e", "d", "i", "t">>

DescPrice == <<"G", "r", "e", "a", "t", " ", "p", "r", "o", "d", "u", "c", "t", " ", "f", "o", "r", " ", "$", "2", "9", "9", ".", "9", "9", " ", "w", "i", "t", "h", " ", "f", "r", "e", "e", " ", "s", "h", "i", "p", "p", "i", "n", "g">>

DescPlain == <<"G", "r", "e", "a", "t", " ", "p", "r", "o", "d", "u", "c", "t", " ", "w", "i", "t", "h", " ", "a", "m", "a", "z", "i", "n", "g", " ", "f", "e", "a", "t", "u", "r", "e", "s">>

\* a first sentence longer than every limit, of many words
DescLongSentence ==
    Rep(<<"V", "e", "r", "y", " ", "l", "o", "n", "g", " ", "d", "e", "s", "c", "r", "i", "p", "t", "i", "o", "n", " ">>, 7) \o <<".", " ", "O", "n", "l", "y", " ", "9", "9", " ", "d", "o", "w", "n", " ", "t", "o", "d", "a", "y", ".">>

\* a first sentence longer than every limit, of one word
DescLongWord == Rep(<<"x">>, LongLen) \o <<".", " ", "$", "5", " ", "o", "f", "f">>

Descs == {DescCamry, DescPrice, DescPlain, DescLongSentence, DescLongWord}

Audiences == {<<>>, <<<<"f", "i", "r", "s", "t", "-", "t", "i", "m", "e", " ", "b", "u", "y", "e", "r", "s">>, <<"O", "K", "C">>>>}

AdGenerationRequest(name, desc, audience, tone, platform, variants) ==
    [name |-> name, desc |-> desc, audience |-> audience, tone |-> tone,
     platform |-> platform, variants |-> variants]

\* Every text of the model, on every platform.
RequestsText ==
    {AdGenerationRequest(n, d, a, "Trustworthy", p, 2) :
        n \in Names, d \in Descs, a \in Audiences, p \in PlatformType}

\* Every tone, platform and count.
RequestsEnum ==
    {AdGenerationRequest(n, DescPrice, <<>>, t, p, v) :
        n \in {NameCamry, NameBlank}, t \in ToneType, p \in PlatformType, v \in 1..5}

Requests == {r \in RequestsText \cup RequestsEnum : ValidRequest(r)}

(***************************************************************************)
(* What the provider call (_call_deepseek_api) can do: raise, or return    *)
(* the body of the reply.                                                  *)
(***************************************************************************)

\* client.post timing out or failing, raise_for_status on a non-2xx status,
\* response.json() on a body that is no JSON
ProviderRaises ==
    {Raise("TimeoutException"), Raise("HTTPStatusError"), Raise("ConnectError"),
     Raise("JSONDecodeError")}

ApiResponse(content) ==
    Dict([choices |-> List(<<Dict([message |-> Dict([content |-> content])])>>)])

\* bodies with no content to read
MalformedResponses ==
    {Dict([invalid |-> Str(ShortText)]),
     Dict([choices |-> List(<<>>)]),
     Dict([choices |-> List(<<Dict([message |-> Dict(<<>>)])>>)]),
     ApiResponse(Null)}

JsonTexts ==
    {<<"{", m, "}">> : m \in DOMAIN JsonMembers}
        \cup {<<"{", "}">>, <<"[", "]">>, <<>>, <<"n", "o", " ", "J", "S", "O", "N">>}

Fenced(text) == FenceOpen \o <<"\n">> \o text \o <<"\n">> \o FenceClose

\* a fence in prose; a fence never closed, ending with the text or a newline;
\* a fence that does not say json
Wrapped(text) ==
    {text,
     Fenced(text),
     <<"H", "i", "\n">> \o Fenced(text) \o <<"\n", "o", "k">>,
     FenceOpen \o <<"\n">> \o text,
     FenceOpen \o <<"\n">> \o text \o <<"\n">>,
     FenceClose \o <<"\n">> \o text \o <<"\n">> \o FenceClose}

Contents ==
    JsonTexts \cup UNION {Wrapped(<<"{", m, "}">>) : m \in {"J_NONE", "J_MANY"}}

ProviderReturns ==
    {Return(r) : r \in MalformedResponses} \cup {Return(ApiResponse(Str(c))) : c \in Contents}

\* The provider is tried with every reply on the requests of RequestsEnum,
\* and with every failure on all requests.
ProviderCalls(request) ==
    IF request \in RequestsEnum /\ request.tone = "Trustworthy"
    THEN ProviderRaises \cup ProviderReturns
    ELSE ProviderRaises

NotCalled == [kind |-> "not_called"]

\* what str(uuid.uuid4())[:8] gives in the passes of a loop: all different, or
\* the same twice
UuidDraws(n) == {[i \in 1..5 |-> i], [i \in 1..5 |-> IF i = 2 THEN 1 ELSE i]}

RequestIds == 1..MaxRequestId

(***************************************************************************)
(* app/api/v1/ads.py: generate_ads and save_ad_to_database                 *)
(***************************************************************************)

None == [kind |-> "none"]

\* The server processes; each runs one handler at a time, to its end.
Workers == 1..MaxWorkers

\* No process is in the middle of a toggle_favorite.
NoToggles == [w \in Workers |-> None]

HTTPException(status_code, detail) ==
    [kind |-> "error", status_code |-> status_code, detail |-> detail]

AdGenerationResponse(variations, request_id) ==
    [kind |-> "ok", status_code |-> 200, success |-> TRUE,
     variations |-> variations, request_id |-> request_id]

\* A slip of generate_ads: an empty list is answered as a success.
generate_ads_response_unchecked(generated, request_id) ==
    IF generated.kind = "raise"
    THEN HTTPException(500, "Internal server error. Please try again later.")
    ELSE AdGenerationResponse(generated.value, request_id)

\* The answer of generate_ads, from what generate_ad_variations did.
generate_ads_response(generated, request_id) ==
    IF generated.kind = "raise"
    THEN HTTPException(500, "Internal server error. Please try again later.")
    ELSE IF generated.value = <<>>
    THEN HTTPException(500, "Failed to generate ad variations. Please try again.")
    ELSE AdGenerationResponse(generated.value, request_id)

\* A slip of generate_ads: the save is scheduled twice.
generate_ads_tasks_twice(generated, request, request_id) ==
    IF generated.kind = "return" /\ generated.value # <<>>
    THEN LET task == [request_id |-> request_id, input_data |-> request,
                      variations |-> generated.value, platform |-> request.platform]
         IN  <<task, task>>
    ELSE <<>>

\* The background tasks generate_ads schedules: one save, on success only.
generate_ads_tasks(generated, request, request_id) ==
    IF generated.kind = "return" /\ generated.value # <<>>
    THEN <<[request_id |-> request_id, input_data |-> request,
            variations |-> generated.value, platform |-> request.platform]>>
    ELSE <<>>

\* generate_ads, for a request of the set requests.
generate_ads_of(requests) ==
    /\ pc = "idle"
    /\ \E request \in requests, request_id \in RequestIds :
         \E called \in (IF api_key THEN ProviderCalls(request) ELSE {NotCalled}) :
           \E ids \in UuidDraws(request.variants) :
             \E generated \in {generate_ad_variations(api_key, request, called, ids)} :
                 /\ req' = request
                 /\ provider' = called
                 /\ provider_calls' = calls_made(api_key, called)
                 /\ engine' = generated
                 /\ response' = generate_ads_response(generated, request_id)
                 /\ tasks' = tasks \o generate_ads_tasks(generated, request, request_id)
    /\ pc' = "done"
    /\ UNCHANGED <<api_key, database, client, ads, bg, call, ret, toggling, writes>>

generate_ads == generate_ads_of(Requests)

\* A slip of save_ad_to_database: a failed insert is let through.
save_ad_to_database_raising(db, collection, task, insert_ok) ==
    IF db = "none"
    THEN [result |-> Return("skipped"), ads |-> collection]
    ELSE IF insert_ok
    THEN [result |-> Return("saved"),
          ads |-> Append(collection,
                    [_id |-> Len(collection) + 1, input_data |-> task.input_data,
                     generated_variations |-> task.variations,
                     platform |-> task.platform, request_id |-> task.request_id,
                     is_favorite |-> FALSE, tags |-> <<>>])]
    ELSE [result |-> Raise("Exception"), ads |-> collection]

\* What one run of save_ad_to_database does to the collection, and how it
\* ends; insert_ok tells whether insert_one succeeds.
save_ad_to_database(db, collection, task, insert_ok) ==
    IF db = "none"
    THEN [result |-> Return("skipped"), ads |-> collection]
    ELSE IF insert_ok
    THEN [result |-> Return("saved"),
          ads |-> Append(collection,
                    [_id |-> Len(collection) + 1, input_data |-> task.input_data,
                     generated_variations |-> task.variations,
                     platform |-> task.platform, request_id |-> task.request_id,
                     is_favorite |-> FALSE, tags |-> <<>>])]
    ELSE [result |-> Return("failed"), ads |-> collection]

\* The framework runs the oldest scheduled task, after the response.
run_background_task ==
    /\ tasks # <<>>
    /\ \E insert_ok \in BOOLEAN :
         \E done \in {save_ad_to_database(database, ads, Head(tasks), insert_ok)} :
             /\ ads' = done.ads
             /\ bg' = done.result
    /\ tasks' = Tail(tasks)
    /\ UNCHANGED <<api_key, database, client, pc, req, provider, provider_calls, engine, response, call, ret,
                   toggling, writes>>

Init ==
    /\ api_key \in BOOLEAN
    /\ database \in {"none", "connected"}
    /\ client = database
    /\ ads = <<>>
    /\ pc = "idle"
    /\ req = None
    /\ provider = None
    /\ provider_calls = 0
    /\ engine = None
    /\ response = None
    /\ tasks = <<>>
    /\ bg = None
    /\ call = None
    /\ ret = None
    /\ toggling = NoToggles
    /\ writes = <<>>

Next == generate_ads \/ run_background_task

Spec == Init /\ [][Next]_vars

(***************************************************************************)
(* The text helpers on every short text.                                   *)
(***************************************************************************)

Alphabet == {"a", " ", "\t"}

Texts == UNION {[1..n -> Alphabet] : n \in 0..MaxLen}

\* the calls of test_truncate_function
TruncateExamples ==
    {[fn |-> "_truncate", text |-> <<"T", "h", "i", "s", " ", "i", "s", " ", "a", " ", "l", "o", "n", "g", " ", "t", "e", "x", "t">>, max_length |-> 10],
     [fn |-> "_truncate", text |-> <<"T", "h", "i", "s", " ", "i", "s", " ", "a", " ", "t", "e", "s", "t">>, max_length |-> 8],
     [fn |-> "_truncate", text |-> <<"S", "h", "o", "r", "t">>, max_length |-> 10],
     [fn |-> "_truncate", text |-> <<>>, max_length |-> 10]}

TruncInit ==
    /\ api_key = FALSE
    /\ database = "none"
    /\ client = database
    /\ ads = <<>>
    /\ pc = "idle"
    /\ req = None
    /\ provider = None
    /\ provider_calls = 0
    /\ engine = None
    /\ response = None
    /\ tasks = <<>>
    /\ bg = None
    /\ call \in {[fn |-> "_truncate", text |-> t, max_length |-> n] :
                    t \in Texts, n \in 0..MaxLimit} \cup TruncateExamples
    /\ ret = None
    /\ toggling = NoToggles
    /\ writes = <<>>

call_truncate ==
    /\ ret = None
    /\ call.fn = "_truncate"
    /\ ret' = Return(_truncate(call.text, call.max_length))
    /\ UNCHANGED <<call, api_key, database, client, ads, pc, req, provider, provider_calls, engine, response, tasks, bg,
                   toggling, writes>>

TruncNext == call_truncate

TruncSpec == TruncInit /\ [][TruncNext]_vars

(***************************************************************************)
(* app/core/database.py: init_database, statement by statement.  The       *)
(* lifespan of main.py awaits it before any request is served, and the     *)
(* tests call it again on the same db object.                              *)
(***************************************************************************)

\* what MongoClient(settings.MONGODB_URL) can do
MongoClientOutcomes ==
    {Return("connected"), Raise("ConnectionFailure"), Raise("ConfigurationError")}

\* what db.client[settings.DATABASE_NAME] can do
GetDatabaseOutcomes == {Return("connected"), Raise("InvalidName")}

\* what db.client.admin.command('ping') can do
PingOutcomes ==
    {Return("ok"), Raise("ConnectionFailure"), Raise("ServerSelectionTimeoutError")}

\* A slip of the except branch: only the client is reset.
init_database_except_client(handle) == [client |-> "none", database |-> handle]

\* except Exception: db.client = None; db.database = None
init_database_except(handle) == [client |-> "none", database |-> "none"]

DbInit ==
    /\ api_key = FALSE
    /\ database = "none"
    /\ client = "none"
    /\ ads = <<>>
    /\ pc = "idle"
    /\ req = None
    /\ provider = None
    /\ provider_calls = 0
    /\ engine = None
    /\ response = None
    /\ tasks = <<>>
    /\ bg = None
    /\ call = None
    /\ ret = None
    /\ toggling = NoToggles
    /\ writes = <<>>

InitCalls == IF call = None THEN 0 ELSE call.n

\* init_database is called
init_database_call ==
    /\ IF call = None THEN TRUE ELSE call.at = "done"
    /\ InitCalls < MaxInits
    /\ call' = [fn |-> "init_database", at |-> "MongoClient", n |-> InitCalls + 1,
                error |-> "none", before |-> [client |-> client, database |-> database]]
    /\ ret' = None
    /\ UNCHANGED <<api_key, database, client, ads, pc, req, provider, provider_calls, engine, response, tasks, bg,
                   toggling, writes>>

\* db.client = MongoClient(settings.MONGODB_URL)
init_database_client ==
    /\ call # None /\ call.at = "MongoClient"
    /\ \E made \in MongoClientOutcomes :
         IF made.kind = "return"
         THEN /\ client' = made.value
              /\ call' = [call EXCEPT !.at = "database"]
         ELSE /\ call' = [call EXCEPT !.at = "except", !.error = made.exc]
              /\ UNCHANGED client
    /\ UNCHANGED <<api_key, database, ads, pc, req, provider, provider_calls, engine, response, tasks, bg, ret,
                   toggling, writes>>

\* db.database = db.client[settings.DATABASE_NAME]
init_database_database ==
    /\ call # None /\ call.at = "database"
    /\ \E got \in GetDatabaseOutcomes :
         IF got.kind = "return"
         THEN /\ database' = got.value
              /\ call' = [call EXCEPT !.at = "ping"]
         ELSE /\ call' = [call EXCEPT !.at = "except", !.error = got.exc]
              /\ UNCHANGED database
    /\ UNCHANGED <<api_key, client, ads, pc, req, provider, provider_calls, engine, response, tasks, bg, ret,
                   toggling, writes>>

\* db.client.admin.command('ping'), and the return after it
init_database_ping ==
    /\ call # None /\ call.at = "ping"
    /\ \E pong \in PingOutcomes :
         IF pong.kind = "return"
         THEN /\ call' = [call EXCEPT !.at = "done"]
              /\ ret' = Return("None")
         ELSE /\ call' = [call EXCEPT !.at = "except", !.error = pong.exc]
              /\ UNCHANGED ret
    /\ UNCHANGED <<api_key, database, client, ads, pc, req, provider, provider_calls, engine, response, tasks, bg,
                   toggling, writes>>

\* the except branch, and the return after it
init_database_handler ==
    /\ call # None /\ call.at = "except"
    /\ \E reset \in {init_database_except(database)} :
         /\ client' = reset.client
         /\ database' = reset.database
    /\ call' = [call EXCEPT !.at = "done"]
    /\ ret' = Return("None")
    /\ UNCHANGED <<api_key, ads, pc, req, provider, provider_calls, engine, response, tasks, bg, toggling, writes>>

init_database ==
    \/ init_database_call
    \/ init_database_client
    \/ init_database_database
    \/ init_database_ping
    \/ init_database_handler

DbNext == init_database

DbSpec == DbInit /\ [][DbNext]_vars

(***************************************************************************)
(* _extract_offer on every short description and on longer ones.          *)
(***************************************************************************)

OfferAlphabet == {"$", "9", " ", ".", ",", "m", "o"}

OfferTexts == UNION {[1..n -> OfferAlphabet] : n \in 0..MaxLen}

\* the descriptions of test_extract_offer, and descriptions with a month or
\* down term, in capitals, after a tab or two spaces, and with a dollar sign
\* that starts no amount
OfferExamples ==
    {<<"G", "r", "e", "a", "t", " ", "p", "r", "o", "d", "u", "c", "t", " ", "f", "o", "r", " ", "$", "2", "9", "9", ".", "9", "9", " ", "w", "i", "t", "h", " ", "f", "r", "e", "e", " ", "s", "h", "i", "p", "p", "i", "n", "g">>,
     <<"A", "v", "a", "i", "l", "a", "b", "l", "e", " ", "f", "o", "r", " ", "$", "9", "9", "/", "m", "o", "n", "t", "h", " ", "w", "i", "t", "h", " ", "f", "i", "n", "a", "n", "c", "i", "n", "g">>,
     <<"G", "r", "e", "a", "t", " ", "p", "r", "o", "d", "u", "c", "t", " ", "w", "i", "t", "h", " ", "a", "m", "a", "z", "i", "n", "g", " ", "f", "e", "a", "t", "u", "r", "e", "s">>,
     <<"$", "2", "8", "9", "/", "m", "o", " ", "w", "i", "t", "h", " ", "a", "p", "p", "r", "o", "v", "e", "d", " ", "c", "r", "e", "d", "i", "t">>,
     <<"1", "2", " ", "M", "o", "n", "t", "h", "s", ",", " ", "t", "h", "e", "n", " ", "$", "5", " ", "o", "f", "f", ".", " ", "E", "n", "d", "s", " ", "s", "o", "o", "n">>,
     <<"5", " ", "D", "O", "W", "N">>,
     <<"0", " ", "d", "o", "w", "n", ",", " ", "9", "m", "o">>,
     <<"O", "n", "l", "y", " ", "$", " ", "5", " ", "o", "r", " ", "$", ".", "5", " ", "o", "r", " ", "$", ",", "5">>,
     <<"7", "\t", "m", "o">>,
     <<"3", " ", " ", "m", "o">>}

OfferInit ==
    /\ api_key = FALSE
    /\ database = "none"
    /\ client = database
    /\ ads = <<>>
    /\ pc = "idle"
    /\ req = None
    /\ provider = None
    /\ provider_calls = 0
    /\ engine = None
    /\ response = None
    /\ tasks = <<>>
    /\ bg = None
    /\ call \in {[fn |-> "_extract_offer", desc |-> d] : d \in OfferTexts \cup OfferExamples}
    /\ ret = None
    /\ toggling = NoToggles
    /\ writes = <<>>

call_extract_offer ==
    /\ ret = None
    /\ call.fn = "_extract_offer"
    /\ ret' = Return(_extract_offer(call.desc))
    /\ UNCHANGED <<call, api_key, database, client, ads, pc, req, provider, provider_calls, engine, response, tasks, bg,
                   toggling, writes>>

OfferNext == call_extract_offer

OfferSpec == OfferInit /\ [][OfferNext]_vars

(***************************************************************************)
(* The business context put into the prompt.  The context returned is      *)
(* named by its heading line.                                              *)
(***************************************************************************)

AutomotiveWords ==
    {<<"c", "a", "r">>,
     <<"a", "u", "t", "o">>,
     <<"v", "e", "h", "i", "c", "l", "e">>,
     <<"t", "o", "y", "o", "t", "a">>,
     <<"h", "o", "n", "d", "a">>,
     <<"f", "o", "r", "d">>,
     <<"c", "a", "m", "r", "y">>,
     <<"d", "e", "a", "l", "e", "r", "s", "h", "i", "p">>}

EcommerceWords ==
    {<<"s", "h", "o", "p">>,
     <<"b", "u", "y">>,
     <<"o", "r", "d", "e", "r">>,
     <<"s", "h", "i", "p", "p", "i", "n", "g">>,
     <<"e", "c", "o", "m", "m", "e", "r", "c", "e">>,
     <<"s", "t", "o", "r", "e">>}

\* any(word in name_lower or word in desc_lower for word in words)
any_word_in(words, name_lower, desc_lower) ==
    \E word \in words : contains(name_lower, word) \/ contains(desc_lower, word)

\* A slip of _get_business_context: the e-commerce words are tried first.
_get_business_context_shop_first(name, desc) ==
    LET name_lower == lower(name)
        desc_lower == lower(desc)
    IN  IF any_word_in(EcommerceWords, name_lower, desc_lower) THEN "ECOMMERCE CONTEXT"
        ELSE IF any_word_in(AutomotiveWords, name_lower, desc_lower) THEN "AUTOMOTIVE CONTEXT"
        ELSE "GENERAL BUSINESS CONTEXT"

_get_business_context(name, desc) ==
    LET name_lower == lower(name)
        desc_lower == lower(desc)
    IN  IF any_word_in(AutomotiveWords, name_lower, desc_lower) THEN "AUTOMOTIVE CONTEXT"
        ELSE IF any_word_in(EcommerceWords, name_lower, desc_lower) THEN "ECOMMERCE CONTEXT"
        ELSE "GENERAL BUSINESS CONTEXT"

\* names and descriptions: those of test_business_context_detection, and
\* texts with a word in another case, inside a longer word, broken by a
\* space or a hyphen, of both lists, and of neither
ContextNames ==
    {<<"2", "0", "1", "9", " ", "T", "o", "y", "o", "t", "a", " ", "C", "a", "m", "r", "y">>,
     <<"i", "P", "h", "o", "n", "e", " ", "C", "a", "s", "e">>,
     <<"S", "C", "A", "R", "F">>,
     <<"B", "o", "o", "k", "s", "t", "o", "r", "e">>,
     <<"W", "i", "d", "g", "e", "t">>,
     <<>>,
     <<"F", "O", "R", "D", " ", "S", "t", "o", "r", "e">>,
     <<"R", "e", "o", "r", "d", "e", "r">>,
     <<"c", "a", " ", "r">>,
     <<"A", "U", "T", "O">>,
     <<"H", "o", "n", "d", "a">>}

ContextDescs ==
    {<<"C", "l", "e", "a", "n", " ", "C", "a", "r", "F", "a", "x", ",", " ", "l", "o", "w", " ", "m", "i", "l", "e", "s">>,
     <<"B", "u", "y", " ", "o", "n", "l", "i", "n", "e", " ", "w", "i", "t", "h", " ", "f", "r", "e", "e", " ", "s", "h", "i", "p", "p", "i", "n", "g">>,
     <<"G", "r", "e", "a", "t", " ", "p", "r", "o", "d", "u", "c", "t">>,
     <<>>,
     <<"e", "-", "c", "o", "m", "m", "e", "r", "c", "e">>,
     <<"B", "U", "Y", " ", "a", " ", "c", "a", "r">>,
     <<"V", "e", "h", "i", "c", "l", "e", "s">>,
     <<"s", "h", "o", " ", "p">>,
     <<"D", "e", "a", "l", "e", "r", "s", "h", "i", "p">>,
     <<"O", "r", "d", "e", "r">>}

ContextInit ==
    /\ api_key = FALSE
    /\ database = "none"
    /\ client = database
    /\ ads = <<>>
    /\ pc = "idle"
    /\ req = None
    /\ provider = None
    /\ provider_calls = 0
    /\ engine = None
    /\ response = None
    /\ tasks = <<>>
    /\ bg = None
    /\ call \in {[fn |-> "_get_business_context", name |-> n, desc |-> d] :
                    n \in ContextNames, d \in ContextDescs}
    /\ ret = None
    /\ toggling = NoToggles
    /\ writes = <<>>

call_get_business_context ==
    /\ ret = None
    /\ call.fn = "_get_business_context"
    /\ ret' = Return(_get_business_context(call.name, call.desc))
    /\ UNCHANGED <<call, api_key, database, client, ads, pc, req, provider, provider_calls, engine, response, tasks, bg,
                   toggling, writes>>

ContextNext == call_get_business_context

ContextSpec == ContextInit /\ [][ContextNext]_vars

(***************************************************************************)
(* The ads collection, as the handlers use it.  A document is a record;    *)
(* the collection keeps its documents in the order of their insertion,     *)
(* which is the order of created_at.                                       *)
(***************************************************************************)

\* The texts that are ObjectIds, in the order of the ids they denote.
OidTexts == <<<<"1">>, <<"2">>, <<"3">>>>

\* ObjectId(ad_id): the id the text denotes, or InvalidId.
ObjectId(ad_id) ==
    LET at == {i \in 1..Len(OidTexts) : OidTexts[i] = ad_id}
    IN  IF at = {} THEN Raise("InvalidId") ELSE Return(CHOOSE i \in at : TRUE)

\* str(ad["_id"])
str_oid(oid) == OidTexts[oid]

\* ad.get(key, default), ad a document
doc_get(ad, key, default) == IF key \in DOMAIN ad THEN ad[key] ELSE default

\* seq[::-1]
Reverse(seq) == [i \in 1..Len(seq) |-> seq[Len(seq) + 1 - i]]

\* collection.find_one({"_id": oid}): the document, or None
find_one(collection, oid) ==
    LET at == {i \in 1..Len(collection) : collection[i]._id = oid}
    IN  IF at = {} THEN None ELSE collection[SetMin(at)]

\* A document matches the query of get_ad_history: no filter, or its platform.
find_query(ad, query) == "platform" \in DOMAIN query => ad.platform = query.platform

\* A slip of the listing: the oldest documents come first, one fewer than asked.
find_oldest_limit(collection, query, limit) ==
    LET found == SelectSeq(collection, LAMBDA ad : find_query(ad, query))
    IN  Slice(found, 0, limit - 1)

\* collection.find(query).sort("created_at", -1).limit(limit)
find_sort_limit(collection, query, limit) ==
    LET found == SelectSeq(collection, LAMBDA ad : find_query(ad, query))
    IN  Slice(Reverse(found), 0, limit)

\* The document as get_ad_history and get_ad_by_id give it.
format_ad(ad) ==
    [id |-> str_oid(ad._id),
     platform |-> doc_get(ad, "platform", None),
     input_data |-> doc_get(ad, "input_data", None),
     variations |-> doc_get(ad, "generated_variations", <<>>),
     is_favorite |-> doc_get(ad, "is_favorite", FALSE),
     tags |-> doc_get(ad, "tags", <<>>)]

(***************************************************************************)
(* get_ad_history                                                          *)
(***************************************************************************)

\* le=100 of the limit parameter, and min(limit, 100)
HistoryLimitCap == 100

\* A query parameter: not given (None), or given with a text.
NotGiven == [given |-> FALSE]

Given(value) == [given |-> TRUE, value |-> value]

\* "if platform:"
platform_query(platform) ==
    IF platform.given /\ platform.value # "" THEN [platform |-> platform.value] ELSE <<>>

HistoryAnswer(found) == [kind |-> "ok", status_code |-> 200, success |-> TRUE,
                         ads |-> found, total |-> Len(found)]

\* A slip of get_ad_history: a storage error is answered as an error.
get_ad_history_response_raising(db, collection, limit, platform, find_ok) ==
    IF db = "none" THEN HistoryAnswer(<<>>)
    ELSE IF ~find_ok THEN HTTPException(500, "Failed to fetch history")
    ELSE LET found == find_sort_limit(collection, platform_query(platform),
                                      Smaller(limit, HistoryLimitCap))
         IN  HistoryAnswer([i \in 1..Len(found) |-> format_ad(found[i])])

\* The answer of get_ad_history; find_ok tells whether the find succeeds.
get_ad_history_response(db, collection, limit, platform, find_ok) ==
    IF db = "none" THEN HistoryAnswer(<<>>)
    ELSE IF ~find_ok THEN HistoryAnswer(<<>>)
    ELSE LET found == find_sort_limit(collection, platform_query(platform),
                                      Smaller(limit, HistoryLimitCap))
         IN  HistoryAnswer([i \in 1..Len(found) |-> format_ad(found[i])])

PlatformParams == {NotGiven, Given(""), Given("meta"), Given("tiktok")}

\* Query(default=50, ge=1, le=100): what FastAPI checks before it calls the
\* handler; a limit outside is answered 422 and the handler does not run.
HistoryLimitMin == 1

HistoryLimitMax == 100

\* the limit test_get_history_max_limit_enforced asks for
TestedLimit == 500

HistoryLimits == (1..MaxHistoryLimit) \cup {TestedLimit}

RequestValidationError(field) ==
    [kind |-> "error", status_code |-> 422, detail |-> field]

\* The handler's part of a history request.  queried is the set of limits
\* the storage query was given: cursor.limit(n) is called whenever there is
\* a database, also when reading the cursor then fails.
get_ad_history_call(limit, platform, find_ok) ==
    /\ call' = [fn |-> "get_ad_history", limit |-> limit, platform |-> platform,
                find_ok |-> find_ok, after |-> pc, stored |-> Len(ads),
                queried |-> IF database = "none" THEN {}
                            ELSE {Smaller(limit, HistoryLimitCap)}]
    /\ ret' = get_ad_history_response(database, ads, limit, platform, find_ok)
    /\ UNCHANGED <<api_key, database, client, ads, pc, req, provider, provider_calls, engine, response, tasks, bg,
                   toggling, writes>>

\* A history request whose limit FastAPI refuses; its other parameters
\* play no part.
get_ad_history_refused(limit) ==
    /\ call' = [fn |-> "validation", limit |-> limit, after |-> pc, stored |-> Len(ads),
                queried |-> {}]
    /\ ret' = RequestValidationError("limit")
    /\ UNCHANGED <<api_key, database, client, ads, pc, req, provider, provider_calls, engine, response, tasks, bg,
                   toggling, writes>>

get_ad_history ==
    \E limit \in HistoryLimits :
        IF limit >= HistoryLimitMin /\ limit <= HistoryLimitMax
        THEN \E platform \in PlatformParams, find_ok \in BOOLEAN :
                get_ad_history_call(limit, platform, find_ok)
        ELSE get_ad_history_refused(limit)

(***************************************************************************)
(* get_ad_by_id                                                            *)
(***************************************************************************)

AdAnswer(ad) == [kind |-> "ok", status_code |-> 200, success |-> TRUE, ad |-> format_ad(ad)]

\* A slip of get_ad_by_id: a missing document is answered with an empty success.
get_ad_by_id_response_empty(db, collection, ad_id, find_ok) ==
    IF db = "none" THEN [kind |-> "ok", status_code |-> 200, success |-> TRUE]
    ELSE IF ObjectId(ad_id).kind = "raise" \/ ~find_ok
    THEN HTTPException(500, "Failed to fetch ad")
    ELSE LET ad == find_one(collection, ObjectId(ad_id).value)
         IN  IF ad = None THEN HTTPException(404, "Ad not found") ELSE AdAnswer(ad)

\* The answer of get_ad_by_id; find_ok tells whether find_one succeeds.
get_ad_by_id_response(db, collection, ad_id, find_ok) ==
    IF db = "none" THEN HTTPException(404, "Ad not found")
    ELSE IF ObjectId(ad_id).kind = "raise" \/ ~find_ok
    THEN HTTPException(500, "Failed to fetch ad")
    ELSE LET ad == find_one(collection, ObjectId(ad_id).value)
         IN  IF ad = None THEN HTTPException(404, "Ad not found") ELSE AdAnswer(ad)

\* The ad_id texts of the requests: the ObjectIds, and a text that is none.
AdIds == {OidTexts[i] : i \in 1..Len(OidTexts)} \cup {<<"x">>}

get_ad_by_id ==
    /\ \E ad_id \in AdIds, find_ok \in BOOLEAN :
         /\ call' = [fn |-> "get_ad_by_id", ad_id |-> ad_id, find_ok |-> find_ok]
         /\ ret' = get_ad_by_id_response(database, ads, ad_id, find_ok)
    /\ UNCHANGED <<api_key, database, client, ads, pc, req, provider, provider_calls, engine, response, tasks, bg,
                   toggling, writes>>

(***************************************************************************)
(* health_check                                                            *)
(***************************************************************************)

\* The answer of health_check; find_ok tells whether find_one succeeds.
health_check_response(db, find_ok) ==
    IF db = "none"
    THEN [kind |-> "ok", status_code |-> 200, success |-> TRUE, service |-> "ads",
          status |-> "healthy", database |-> "disconnected"]
    ELSE IF find_ok
    THEN [kind |-> "ok", status_code |-> 200, success |-> TRUE, service |-> "ads",
          status |-> "healthy", database |-> "connected"]
    ELSE [kind |-> "ok", status_code |-> 200, success |-> FALSE, service |-> "ads",
          status |-> "unhealthy"]

health_check ==
    /\ \E find_ok \in BOOLEAN :
         /\ call' = [fn |-> "health_check", find_ok |-> find_ok]
         /\ ret' = health_check_response(database, find_ok)
    /\ UNCHANGED <<api_key, database, client, ads, pc, req, provider, provider_calls, engine, response, tasks, bg,
                   toggling, writes>>

(***************************************************************************)
(* The service with its readers: one generation, its background save, and  *)
(* history, single-ad and health reads at any moment.  The framework runs  *)
(* a scheduled background task once the response is sent, and a client     *)
(* that waits for its record keeps reading the newest entry of the         *)
(* history.                                                                *)
(***************************************************************************)

HistoryRequests ==
    {AdGenerationRequest(n, DescPlain, <<>>, "Trustworthy", p, 2) :
        n \in {NameShop, NameBlank}, p \in {"meta", "tiktok"}}

generate_one == generate_ads_of(HistoryRequests)

\* The read of the newest entry, with no filter, the storage answering.
read_newest == get_ad_history_call(1, NotGiven, TRUE)

HistoryNext ==
    \/ generate_one
    \/ run_background_task
    \/ get_ad_history
    \/ get_ad_by_id
    \/ health_check

HistorySpec ==
    /\ Init
    /\ [][HistoryNext]_vars
    /\ WF_vars(run_background_task)
    /\ WF_vars(read_newest)

(***************************************************************************)
(* toggle_favorite.  The handler makes two calls of the collection,        *)
(* find_one and then update_one, with nothing that ties them together.     *)
(* One server process runs its handler to the end, but the collection is   *)
(* shared: the calls of another process can come between the two.          *)
(***************************************************************************)

\* A slip of the toggle: the ad is made a favorite whatever it was.
new_favorite_status_set(ad) == TRUE

\* not ad.get("is_favorite", False)
new_favorite_status(ad) == ~doc_get(ad, "is_favorite", FALSE)

\* A slip of update_one: every document is updated.
update_many(collection, oid, value) ==
    [i \in 1..Len(collection) |->
        [k \in DOMAIN collection[i] \cup {"is_favorite"} |->
            IF k = "is_favorite" THEN value ELSE collection[i][k]]]

\* collection.update_one({"_id": oid}, {"$set": {"is_favorite": value}})
update_one(collection, oid, value) ==
    [i \in 1..Len(collection) |->
        IF collection[i]._id = oid
        THEN [k \in DOMAIN collection[i] \cup {"is_favorite"} |->
                IF k = "is_favorite" THEN value ELSE collection[i][k]]
        ELSE collection[i]]

ToggleAnswer(value) ==
    [kind |-> "ok", status_code |-> 200, success |-> TRUE, is_favorite |-> value,
     message |-> IF value THEN "Ad added to favorites" ELSE "Ad removed from favorites"]

\* Toggles in flight.
InFlight == Cardinality({w \in Workers : toggling[w] # None})

\* The handler up to find_one and the value it computes; it answers at once
\* when there is no storage, no such document, or an error.
toggle_favorite_find(w) ==
    /\ toggling[w] = None
    /\ Len(writes) + InFlight < MaxWrites
    /\ \E ad_id \in AdIds, find_ok \in BOOLEAN :
         LET oid == ObjectId(ad_id)
             ad  == find_one(ads, oid.value)
             answer(r) ==
                 /\ call' = [fn |-> "toggle_favorite", ad_id |-> ad_id, worker |-> w]
                 /\ ret' = r
                 /\ UNCHANGED toggling
         IN  IF database = "none" THEN answer(HTTPException(404, "Ad not found"))
             ELSE IF oid.kind = "raise" \/ ~find_ok
             THEN answer(HTTPException(500, "Failed to update favorite status"))
             ELSE IF ad = None THEN answer(HTTPException(404, "Ad not found"))
             ELSE /\ toggling' = [toggling EXCEPT ![w] =
                                    [ad_id |-> ad_id, oid |-> oid.value,
                                     before |-> doc_get(ad, "is_favorite", FALSE),
                                     new_favorite_status |-> new_favorite_status(ad),
                                     at |-> Len(writes)]]
                  /\ UNCHANGED <<call, ret>>
    /\ UNCHANGED <<api_key, database, client, ads, pc, req, provider, provider_calls, engine, response, tasks, bg,
                   writes>>

\* The rest of the handler: update_one, and the answer.
toggle_favorite_update(w) ==
    /\ toggling[w] # None
    /\ \E update_ok \in BOOLEAN :
         LET t == toggling[w]
         IN  /\ call' = [fn |-> "toggle_favorite", ad_id |-> t.ad_id, worker |-> w]
             /\ IF update_ok
                THEN /\ ads' = update_one(ads, t.oid, t.new_favorite_status)
                     /\ writes' = Append(writes,
                                    [op |-> "update_one", oid |-> t.oid, worker |-> w,
                                     is_favorite |-> t.new_favorite_status,
                                     before |-> t.before, at |-> t.at,
                                     matched |-> find_one(ads, t.oid) # None])
                     /\ ret' = ToggleAnswer(t.new_favorite_status)
                ELSE /\ ret' = HTTPException(500, "Failed to update favorite status")
                     /\ UNCHANGED <<ads, writes>>
    /\ toggling' = [toggling EXCEPT ![w] = None]
    /\ UNCHANGED <<api_key, database, client, pc, req, provider, provider_calls, engine, response, tasks, bg>>

toggle_favorite == \E w \in Workers : toggle_favorite_find(w) \/ toggle_favorite_update(w)

(***************************************************************************)
(* delete_ad                                                               *)
(***************************************************************************)

\* A slip of delete_one: every document goes.
delete_many(collection, oid) ==
    [deleted_count |-> Len(collection), ads |-> <<>>]

\* collection.delete_one({"_id": oid}): what is left, and the count.
delete_one(collection, oid) ==
    LET left == SelectSeq(collection, LAMBDA ad : ad._id # oid)
    IN  [deleted_count |-> Len(collection) - Len(left), ads |-> left]

\* The answer of delete_ad; deleted_count is what delete_one reported.
delete_ad_response(db, ad_id, delete_ok, deleted_count) ==
    IF db = "none" THEN HTTPException(404, "Ad not found")
    ELSE IF ObjectId(ad_id).kind = "raise" \/ ~delete_ok
    THEN HTTPException(500, "Failed to delete ad")
    ELSE IF deleted_count = 0 THEN HTTPException(404, "Ad not found")
    ELSE [kind |-> "ok", status_code |-> 200, success |-> TRUE,
          message |-> "Ad deleted successfully"]

\* Run by a process that is not in the middle of a toggle.
delete_ad ==
    /\ \E w \in Workers : toggling[w] = None
    /\ \E ad_id \in AdIds, delete_ok \in BOOLEAN :
         LET oid   == ObjectId(ad_id)
             calls == database # "none" /\ oid.kind = "return" /\ delete_ok
             done  == IF calls THEN delete_one(ads, oid.value)
                      ELSE [deleted_count |-> 0, ads |-> ads]
         IN  /\ call' = [fn |-> "delete_ad", ad_id |-> ad_id, delete_ok |-> delete_ok]
             /\ ret' = delete_ad_response(database, ad_id, delete_ok, done.deleted_count)
             /\ ads' = done.ads
             /\ writes' = IF done.deleted_count > 0
                          THEN Append(writes, [op |-> "delete_one", oid |-> oid.value,
                                               deleted_count |-> done.deleted_count])
                          ELSE writes
    /\ UNCHANGED <<api_key, database, client, pc, req, provider, provider_calls, engine, response, tasks, bg,
                   toggling>>

(***************************************************************************)
(* The stored ads and their users: toggles, deletes and fetches of         *)
(* documents that earlier generations left in the collection.  No          *)
(* document is inserted here, so no ObjectId is given twice.               *)
(***************************************************************************)

\* Five ids of uuid4, all different.
SomeIds == [i \in 1..5 |-> i]

\* The document save_ad_to_database inserts for the request, with the id oid.
StoredAd(oid, request, favorite) ==
    [_id |-> oid, input_data |-> request,
     generated_variations |-> _create_fallback_variations(request, SomeIds).value,
     platform |-> request.platform, request_id |-> 1,
     is_favorite |-> favorite, tags |-> <<>>]

\* A document of another writer, with no is_favorite and no tags.
BareAd(oid, request) ==
    [_id |-> oid, input_data |-> request, platform |-> request.platform]

ShopRequest(platform) ==
    AdGenerationRequest(NameShop, DescPlain, <<>>, "Trustworthy", platform, 1)

Stores ==
    {<<>>,
     <<StoredAd(1, ShopRequest("meta"), TRUE)>>,
     <<StoredAd(1, ShopRequest("meta"), FALSE), BareAd(2, ShopRequest("tiktok"))>>}

StoreInit ==
    /\ api_key = FALSE
    /\ database \in {"none", "connected"}
    /\ client = database
    /\ ads \in (IF database = "none" THEN {<<>>} ELSE Stores)
    /\ pc = "idle"
    /\ req = None
    /\ provider = None
    /\ provider_calls = 0
    /\ engine = None
    /\ response = None
    /\ tasks = <<>>
    /\ bg = None
    /\ call = None
    /\ ret = None
    /\ toggling = NoToggles
    /\ writes = <<>>

StoreNext ==
    \/ toggle_favorite
    \/ delete_ad
    \/ get_ad_by_id

StoreSpec == StoreInit /\ [][StoreNext]_vars

(***************************************************************************)
(* Notions the properties below are stated with.                           *)
(***************************************************************************)

\* generate_ads has answered the request req.
Handled == pc = "done"

\* The engine returned a list (it did not raise).
Returned == Handled /\ engine.kind = "return"

\* The keys of a variation of the platform.
VariationKeys(platform) ==
    {"id", "platform", "tone"} \cup DOMAIN PLATFORM_LIMITS[platform].fields

\* The value is a text of at most max characters.
IsText(v, max) == v.t = "str" /\ Len(v.s) <= max

\* The value has the declared shape: one text, or a list of count texts, each
\* of at most max characters.
Shaped(v, limit) ==
    IF limit.count = 1
    THEN IsText(v, limit.max)
    ELSE /\ v.t = "list"
         /\ Len(v.items) = limit.count
         /\ \A k \in 1..Len(v.items) : IsText(v.items[k], limit.max)

\* Every text of the value has at most max characters.
Within(v, limit) ==
    IF v.t = "list"
    THEN \A k \in 1..Len(v.items) : IsText(v.items[k], limit.max)
    ELSE IsText(v, limit.max)

\* The value has the declared layout: one value, or a list of count values.
Counted(v, limit) ==
    IF limit.count = 1 THEN v.t = "str" ELSE v.t = "list" /\ Len(v.items) = limit.count

\* The variation has exactly the platform's keys, each field of its layout.
HasFields(variation, platform) ==
    /\ DOMAIN variation = VariationKeys(platform)
    /\ \A f \in DOMAIN PLATFORM_LIMITS[platform].fields :
         Counted(variation[f], PLATFORM_LIMITS[platform].fields[f])

\* The variation has exactly the platform's keys, each field of its shape.
HasLayout(variation, platform) ==
    /\ DOMAIN variation = VariationKeys(platform)
    /\ \A f \in DOMAIN PLATFORM_LIMITS[platform].fields :
         Shaped(variation[f], PLATFORM_LIMITS[platform].fields[f])

\* The list without what uuid4 gave.
WithoutIds(list) == [i \in 1..Len(list) |-> [list[i] EXCEPT !.id = 0]]

\* Two outcomes that differ at most in the ids.
SameOutcome(a, b) ==
    /\ a.kind = b.kind
    /\ a.kind = "raise" => a.exc = b.exc
    /\ a.kind = "return" => WithoutIds(a.value) = WithoutIds(b.value)

\* What the fallback generator gives for the request handled.
FallbackOutcome == _create_fallback_variations(req, SomeIds)

\* The provider was called and returned a body.
Replied == Handled /\ api_key /\ provider.kind = "return"

\* The provider was called and the call raised.
CallRaised == Handled /\ api_key /\ provider.kind = "raise"

\* The content of the reply cannot be read as a text.
ContentMissing ==
    \/ response_content(provider.value).kind = "raise"
    \/ response_content(provider.value).value.t # "str"

ReplyContent == response_content(provider.value).value.s

\* The reply opens a ```json fence and never closes it.
FenceUnclosed ==
    /\ contains(ReplyContent, FenceOpen)
    /\ find(ReplyContent, FenceClose, find(ReplyContent, FenceOpen, 0) + 7) = -1

\* What json.loads gives for the text taken from the content.
Decoded == json_loads(fence_content(ReplyContent))

Undecodable == Decoded.kind = "raise"

\* The decoded JSON is an object with no "variations" key, or with an empty
\* "variations" array.
VariationsAbsent == Decoded.value.t = "dict" /\ "variations" \notin DOMAIN Decoded.value.m

VariationsEmpty ==
    /\ Decoded.value.t = "dict"
    /\ "variations" \in DOMAIN Decoded.value.m
    /\ Decoded.value.m["variations"] = List(<<>>)

\* The entries of the "variations" array of the decoded object; none when
\* the key is absent.
EntriesGiven ==
    IF /\ Decoded.value.t = "dict"
       /\ "variations" \in DOMAIN Decoded.value.m
       /\ Decoded.value.m["variations"].t = "list"
    THEN Decoded.value.m["variations"].items
    ELSE <<>>

\* The reply can be read: a text content that decodes to an object whose
\* "variations" is absent or is an array, the entries the parser takes being
\* objects.
WellFormedReply ==
    /\ Replied /\ ~ContentMissing /\ ~Undecodable
    /\ Decoded.value.t = "dict"
    /\ "variations" \in DOMAIN Decoded.value.m => Decoded.value.m["variations"].t = "list"
    /\ \A k \in 1..Len(EntriesGiven) : k <= req.variants => EntriesGiven[k].t = "dict"

\* The result is the fallback generator's: no credential, a failed call, or
\* a reply the parser could not use.
FallbackPath == Handled /\ (~api_key \/ CallRaised \/ (Replied /\ ~WellFormedReply))

StrictPlatforms == {p \in PlatformType : ~PLATFORM_LIMITS[p].soft}

(***************************************************************************)
(* C1.  For every valid request and every provider situation,              *)
(* generate_ad_variations ends by returning a list and never lets an       *)
(* exception out.                                                          *)
(* The code breaks it: a name of whitespace alone on tiktok raises         *)
(* IndexError in the fallback generator (request.name.split()[0]).         *)
(***************************************************************************)
C1_NeverRaises == Handled => engine.kind = "return"

(***************************************************************************)
(* C2.  With no credential, the engine returns exactly `variants` records, *)
(* each of exactly the platform's field layout.  Broken by the IndexError  *)
(* of C1.                                                                  *)
(***************************************************************************)
C2_FallbackCountAndLayout ==
    (Handled /\ ~api_key) =>
        /\ engine.kind = "return"
        /\ Len(engine.value) = req.variants
        /\ \A i \in 1..Len(engine.value) : HasFields(engine.value[i], req.platform)

(***************************************************************************)
(* C3.  With a credential and the provider call raising, the engine        *)
(* returns what the pure fallback gives: exactly `variants` records of the *)
(* platform's shape, every text within its limit.  Broken by the           *)
(* IndexError of C1.                                                       *)
(***************************************************************************)
C3_CallRaisedGivesFallback ==
    CallRaised =>
        /\ engine.kind = "return"
        /\ SameOutcome(engine, FallbackOutcome)
        /\ Len(engine.value) = req.variants
        /\ \A i \in 1..Len(engine.value) : HasLayout(engine.value[i], req.platform)

(***************************************************************************)
(* C4, as claimed.  On every path the list returned is non-empty and its   *)
(* length equals `variants`.                                               *)
(***************************************************************************)
C4_LengthIsVariants ==
    Returned => Len(engine.value) = req.variants /\ engine.value # <<>>

(***************************************************************************)
(* C4, amended.  The list returned is never longer than `variants`; it has *)
(* exactly `variants` records when the fallback generator made it, and     *)
(* min(k, variants) records when the parser made it from a reply of k      *)
(* entries (none when the reply has no entries).                           *)
(***************************************************************************)
C4_LengthAtMostVariants ==
    Returned =>
        /\ Len(engine.value) <= req.variants
        /\ FallbackPath => Len(engine.value) = req.variants
        /\ ~FallbackPath => Len(engine.value) = Smaller(Len(EntriesGiven), req.variants)

\* The parser returned fewer records than asked for, and some.
C4_Witness ==
    /\ Returned /\ ~FallbackPath
    /\ Len(engine.value) < req.variants /\ engine.value # <<>>

C6_FallbackWithinLimits ==
    (Returned /\ (~api_key \/ CallRaised)) =>
        \A i \in 1..Len(engine.value) :
            \A f \in DOMAIN PLATFORM_LIMITS[req.platform].fields :
                Within(engine.value[i][f], PLATFORM_LIMITS[req.platform].fields[f])

\* The fallback generator cut a name longer than the limit of the field.
C6_Witness ==
    /\ Returned /\ ~api_key /\ req.platform = "google_display"
    /\ Len(req.name) > 30
    /\ Len(engine.value[1].shortHeadline.s) <= 30
    /\ Len(engine.value[1].shortHeadline.s) > 0

(***************************************************************************)
(* C7, as claimed.  Every variation returned for a strict-limit platform,  *)
(* on the fallback path and on the AI path alike, has the declared shape.  *)
(***************************************************************************)
C7_StrictShapeOnEveryPath ==
    (Returned /\ req.platform \in StrictPlatforms) =>
        \A i \in 1..Len(engine.value) : HasLayout(engine.value[i], req.platform)

(***************************************************************************)
(* C7, amended.  For a strict-limit platform every variation has the       *)
(* platform's keys; on the fallback path every field has the declared      *)
(* shape; on the AI path a field the provider's entry leaves out has the   *)
(* declared shape (its default), and a field the entry supplies is passed  *)
(* on unchanged, whatever its count, length or type.                       *)
(***************************************************************************)
C7_StrictShapeOfFallbackAndDefaults ==
    (Returned /\ req.platform \in StrictPlatforms) =>
        \A i \in 1..Len(engine.value) :
            /\ DOMAIN engine.value[i] = VariationKeys(req.platform)
            /\ FallbackPath => HasLayout(engine.value[i], req.platform)
            /\ ~FallbackPath =>
                 \A f \in DOMAIN PLATFORM_LIMITS[req.platform].fields :
                    IF f \in DOMAIN EntriesGiven[i].m
                    THEN engine.value[i][f] = EntriesGiven[i].m[f]
                    ELSE Shaped(engine.value[i][f], PLATFORM_LIMITS[req.platform].fields[f])

\* The parser filled the descriptions a google_search entry left out.
C7_Witness ==
    /\ Returned /\ ~FallbackPath /\ req.platform = "google_search"
    /\ engine.value # <<>>
    /\ "descriptions" \notin DOMAIN EntriesGiven[1].m
    /\ "headlines" \in DOMAIN EntriesGiven[1].m
    /\ Len(engine.value[1].descriptions.items) = 2

(***************************************************************************)
(* The calls of _truncate.                                                 *)
(***************************************************************************)

Truncated == ret.kind = "return" /\ call.fn = "_truncate"

\* text[:max_length]
Prefix == Slice(call.text, 0, call.max_length)

\* The places of the spaces of the prefix, counted from 0.
PrefixSpaces == {k \in 0..(Len(Prefix) - 1) : Prefix[k + 1] = " "}

\* The prefix cut at its last space, trimmed.
CutAtLastSpace == strip(Slice(Prefix, 0, SetMax(PrefixSpaces)))

\* The prefix, trimmed.
HardCut == strip(Prefix)

(***************************************************************************)
(* C8, as claimed.  _truncate returns at most limit characters; the text   *)
(* unchanged when it is short enough, "" for ""; otherwise the prefix cut  *)
(* at its last space and trimmed when the prefix contains a space, and     *)
(* the hard cut only when the prefix contains no space.                    *)
(***************************************************************************)
C8_CutWheneverPrefixHasSpace ==
    Truncated =>
        /\ Len(ret.value) <= call.max_length
        /\ Len(call.text) <= call.max_length => ret.value = call.text
        /\ Len(call.text) > call.max_length =>
             ret.value = IF PrefixSpaces # {} THEN CutAtLastSpace ELSE HardCut

(***************************************************************************)
(* C8, amended.  For every text and every limit >= 0, _truncate returns at *)
(* most limit characters; the text unchanged when it is short enough, ""   *)
(* for ""; otherwise the prefix cut at its last space and trimmed when     *)
(* the prefix contains a space after its first character, and the hard     *)
(* cut, trimmed, when the prefix contains no space or its only space is    *)
(* its first character.                                                    *)
(***************************************************************************)
C8_CutWhenSpaceAfterFirst ==
    Truncated =>
        /\ Len(ret.value) <= call.max_length
        /\ Len(call.text) <= call.max_length => ret.value = call.text
        /\ Len(call.text) > call.max_length =>
             ret.value = IF PrefixSpaces \ {0} # {} THEN CutAtLastSpace ELSE HardCut

\* truncate("This is a test", 8) gave "This is".
C8_Witness ==
    /\ Truncated
    /\ call.max_length = 8 /\ Len(call.text) = 14
    /\ ret.value = <<"T", "h", "i", "s", " ", "i", "s">>

(***************************************************************************)
(* C9.  generate_ads answers success exactly when the engine returned a    *)
(* non-empty list; an empty list is answered 500 'Failed to generate ad    *)
(* variations. Please try again.', an exception 500 'Internal server       *)
(* error. Please try again later.', and no error answer carries            *)
(* variations.                                                             *)
(***************************************************************************)
C9_SuccessIffNonEmpty ==
    Handled =>
        /\ response.kind = "ok" <=> (engine.kind = "return" /\ engine.value # <<>>)
        /\ response.kind = "ok" =>
             /\ response.status_code = 200 /\ response.success
             /\ response.variations = engine.value
        /\ (engine.kind = "return" /\ engine.value = <<>>) =>
             /\ response.status_code = 500
             /\ response.detail = "Failed to generate ad variations. Please try again."
        /\ engine.kind = "raise" =>
             /\ response.status_code = 500
             /\ response.detail = "Internal server error. Please try again later."
        /\ response.kind # "ok" => "variations" \notin DOMAIN response

\* An empty list from the engine was answered with the error.
C9_Witness ==
    /\ Handled /\ engine = Return(<<>>)
    /\ response.status_code = 500

(***************************************************************************)
(* C10.  A storage write that fails (no storage configured, or the insert  *)
(* raising) leaves the answer of generate_ads as it was, success with the  *)
(* generated variations, and save_ad_to_database itself never raises.      *)
(***************************************************************************)
C10_SaveFailureLeavesResponse ==
    bg # None =>
        /\ bg.kind = "return"
        /\ bg.value \in {"skipped", "failed"} =>
             /\ ads = <<>>
             /\ response.kind = "ok" /\ response.status_code = 200
             /\ response.variations = engine.value /\ engine.value # <<>>

\* The insert raised after a success was answered.
C10_Witness ==
    /\ bg = Return("failed")
    /\ database = "connected"
    /\ response.kind = "ok"

(***************************************************************************)
(* C11.  With storage configured and inserts succeeding, a generate        *)
(* request answered with success leads to exactly one inserted record:     *)
(* its request_id is the response's, its variations and platform are       *)
(* those returned, its input_data is the request, is_favorite is false     *)
(* and tags are empty; a request answered with an error inserts nothing.   *)
(***************************************************************************)
C11_OneRecordPerSuccess ==
    /\ (Handled /\ response.kind # "ok") => (tasks = <<>> /\ ads = <<>> /\ bg = None)
    /\ (Handled /\ response.kind = "ok") => Len(tasks) + (IF bg = None THEN 0 ELSE 1) = 1
    /\ bg = Return("saved") =>
         /\ response.kind = "ok" /\ database = "connected"
         /\ Len(ads) = 1
         /\ ads[1].request_id = response.request_id
         /\ ads[1].generated_variations = response.variations
         /\ ads[1].platform = req.platform
         /\ ads[1].platform = response.variations[1].platform
         /\ ads[1].input_data = req
         /\ ads[1].is_favorite = FALSE
         /\ ads[1].tags = <<>>
    /\ bg # Return("saved") => ads = <<>>

\* The record of a successful generation was inserted.
C11_Witness ==
    /\ bg = Return("saved") /\ tasks = <<>>
    /\ Len(ads) = 1 /\ ads[1].request_id = response.request_id

(***************************************************************************)
(* The reads.                                                              *)
(***************************************************************************)

\* The last call answered was of the handler fn.
Answered(fn) == ret # None /\ call.fn = fn

\* The history read answered last was issued after the generate response,
\* with no filter, and the storage answered it.
ReadAfterResponse ==
    /\ Answered("get_ad_history")
    /\ call.after = "done" /\ call.platform = NotGiven /\ call.find_ok

\* The answered history lists the generated record.
NewRecordListed ==
    /\ Answered("get_ad_history")
    /\ \E i \in 1..Len(ret.ads) :
         /\ ret.ads[i].variations = response.variations
         /\ ret.ads[i].input_data = req

(***************************************************************************)
(* C12.  The save is scheduled only once the variations exist, with the    *)
(* variations of the response, and runs after the response: a history      *)
(* read issued after the response can complete without the new record.     *)
(* With the storage working and the background task run, the record        *)
(* eventually is listed by the history reads of a client that keeps        *)
(* reading.                                                                *)
(***************************************************************************)
C12_RecordEventuallyListed ==
    /\ [](tasks # <<>> =>
            /\ response.kind = "ok"
            /\ Head(tasks).variations = response.variations
            /\ ads = <<>>)
    /\ ((Handled /\ response.kind = "ok" /\ database = "connected")
            ~> (bg = Return("failed") \/ NewRecordListed))

\* A history read issued after the success response found no record: the
\* save had not run.
C12_Witness ==
    /\ Handled /\ response.kind = "ok" /\ database = "connected"
    /\ ReadAfterResponse /\ ret.ads = <<>>
    /\ tasks # <<>>

(***************************************************************************)
(* C13, as claimed.  With no storage configured every read, the history    *)
(* listing and the fetch of one ad, answers an empty result and no error,  *)
(* and the health check reports the database disconnected and the          *)
(* service healthy.                                                        *)
(***************************************************************************)
C13_NoStorageReadsEmpty ==
    database = "none" =>
        /\ Answered("get_ad_history") => ret = HistoryAnswer(<<>>)
        /\ Answered("get_ad_by_id") => ret.kind = "ok"
        /\ Answered("health_check") =>
             ret.success /\ ret.status = "healthy" /\ ret.database = "disconnected"

(***************************************************************************)
(* C13, amended.  With no storage configured the history listing answers   *)
(* an empty success; the fetch of one ad answers 404 'Ad not found', the   *)
(* answer it gives for a record that does not exist, and never a 500; the  *)
(* health check reports the database disconnected and the service          *)
(* healthy.                                                                *)
(***************************************************************************)
C13_NoStorageHistoryEmptyFetch404 ==
    database = "none" =>
        /\ Answered("get_ad_history") => ret = HistoryAnswer(<<>>)
        /\ Answered("get_ad_by_id") => ret = HTTPException(404, "Ad not found")
        /\ Answered("health_check") =>
             ret.success /\ ret.status = "healthy" /\ ret.database = "disconnected"

\* With no storage, the fetch of one ad was answered 404.
C13_Witness ==
    /\ database = "none"
    /\ Answered("get_ad_by_id") /\ ret.status_code = 404

(***************************************************************************)
(* C14, as claimed.  A storage error raised during a read, the history     *)
(* listing or the fetch of one ad, is answered with an empty success and   *)
(* no error.                                                               *)
(***************************************************************************)
C14_ReadErrorsGiveEmpty ==
    (database = "connected" /\ ret # None
        /\ call.fn \in {"get_ad_history", "get_ad_by_id"} /\ ~call.find_ok) =>
        ret.kind = "ok" /\ ret.success

(***************************************************************************)
(* C14, amended.  A storage error raised during the history listing is     *)
(* answered with an empty success; a storage error raised during the       *)
(* fetch of one ad, and an ad_id that is no ObjectId, is answered 500      *)
(* 'Failed to fetch ad'.                                                   *)
(***************************************************************************)
C14_HistoryErrorEmptyFetchError500 ==
    database = "connected" =>
        /\ (Answered("get_ad_history") /\ ~call.find_ok) => ret = HistoryAnswer(<<>>)
        /\ (Answered("get_ad_by_id")
              /\ (~call.find_ok \/ ObjectId(call.ad_id).kind = "raise")) =>
             ret = HTTPException(500, "Failed to fetch ad")

\* The listing failed with a record stored, and an empty success was answered.
C14_Witness ==
    /\ database = "connected"
    /\ Answered("get_ad_history") /\ ~call.find_ok /\ call.stored > 0
    /\ ret.ads = <<>> /\ ret.success

(***************************************************************************)
(* The stored ads.                                                         *)
(***************************************************************************)

\* The entries of the log that are updates of the document oid that found it.
UpdatesOf(oid) ==
    {k \in 1..Len(writes) :
        writes[k].op = "update_one" /\ writes[k].oid = oid /\ writes[k].matched}

\* The update of entry k was made with no call of the collection between
\* the toggle's find_one and it.
Alone(k) == writes[k].op = "update_one" /\ writes[k].matched /\ writes[k].at = k - 1

\* The document oid was deleted.
Deleted(oid) ==
    \E k \in 1..Len(writes) : writes[k].op = "delete_one" /\ writes[k].oid = oid

\* The stored is_favorite of the document oid, a missing value being false.
StoredFavorite(collection, oid) == doc_get(find_one(collection, oid), "is_favorite", FALSE)

\* The process w ends a toggle that no call of the collection came into.
TogglesAlone(w) ==
    /\ toggle_favorite_update(w)
    /\ toggling[w].at = Len(writes)
    /\ ret'.kind = "ok"

(***************************************************************************)
(* C15.  With no other call on the collection between its find_one and     *)
(* its update_one, toggle_favorite on an existing record sets the stored   *)
(* is_favorite to the negation of the value before (a missing value is     *)
(* false), makes exactly one update, which changes no other record, and    *)
(* returns the new value; two such toggles one after the other restore     *)
(* the value.                                                              *)
(***************************************************************************)
C15_ToggleNegates ==
    /\ [][\A w \in Workers : TogglesAlone(w) =>
            LET oid == toggling[w].oid
            IN  /\ find_one(ads, oid) # None
                /\ StoredFavorite(ads', oid) = ~StoredFavorite(ads, oid)
                /\ "is_favorite" \in DOMAIN find_one(ads', oid)
                /\ ret'.is_favorite = StoredFavorite(ads', oid)
                /\ Len(writes') = Len(writes) + 1
                /\ Len(ads') = Len(ads)
                /\ \A i \in 1..Len(ads) : ads[i]._id # oid => ads'[i] = ads[i]]_vars
    /\ [](\A k \in 1..(Len(writes) - 1) :
            (Alone(k) /\ Alone(k + 1) /\ writes[k].oid = writes[k + 1].oid) =>
                /\ writes[k + 1].is_favorite = writes[k].before
                /\ (Len(writes) = k + 1 =>
                      StoredFavorite(ads, writes[k].oid) = writes[k].before))

\* Two toggles, one after the other, of a document with no is_favorite: it
\* is false again.
C15_Witness ==
    /\ Len(writes) = 2 /\ Alone(1) /\ Alone(2)
    /\ writes[1].oid = 2 /\ writes[2].oid = 2
    /\ writes[1].is_favorite /\ ~writes[2].is_favorite
    /\ find_one(ads, 2).is_favorite = FALSE

(***************************************************************************)
(* C16.  Toggles are read-then-write with no guard, the last write wins.   *)
(* In every interleaving of two concurrent toggles of one record the       *)
(* stored is_favorite is a boolean and equals the value the last update    *)
(* wrote; and there is an interleaving in which both toggles read the      *)
(* same value, so that the record ends at the negation of its original     *)
(* value and not at the original: one toggle is lost.                      *)
(***************************************************************************)
C16_LastWriteWins ==
    \A i \in 1..Len(ads) :
        /\ "is_favorite" \in DOMAIN ads[i] => ads[i].is_favorite \in BOOLEAN
        /\ UpdatesOf(ads[i]._id) # {} =>
             /\ "is_favorite" \in DOMAIN ads[i]
             /\ ads[i].is_favorite = writes[SetMax(UpdatesOf(ads[i]._id))].is_favorite

\* Both toggles read the record before either wrote: both wrote the same
\* value, the negation of the original.
C16_Witness ==
    /\ Len(writes) = 2 /\ UpdatesOf(1) = {1, 2}
    /\ writes[1].at = 0 /\ writes[2].at = 0
    /\ writes[1].worker # writes[2].worker
    /\ writes[1].before = writes[2].before
    /\ toggling = NoToggles
    /\ StoredFavorite(ads, 1) = ~writes[1].before

(***************************************************************************)
(* delete_ad                                                               *)
(***************************************************************************)

\* The delete_ad step that ends is of an ad_id no stored document has.
NoSuchAd == 
    \/ ObjectId(call'.ad_id).kind = "raise"
    \/ find_one(ads, ObjectId(call'.ad_id).value) = None

\* The last call answered was of fn, for the document oid, the storage
\* answering.
AnsweredFor(fn, oid) == Answered(fn) /\ call.ad_id = str_oid(oid)

NotFound == HTTPException(404, "Ad not found")

\* What the later calls for a deleted document answer.
AfterDelete(oid) ==
    /\ (AnsweredFor("get_ad_by_id", oid) /\ call.find_ok) => ret = NotFound
    /\ (AnsweredFor("delete_ad", oid) /\ call.delete_ok) =>
          \/ ret = NotFound
          \/ ret.kind = "ok" /\ writes[Len(writes)] =
                                  [op |-> "delete_one", oid |-> oid, deleted_count |-> 1]
    /\ (AnsweredFor("toggle_favorite", oid) /\ ret.kind = "ok") =>
          \* the toggle had found the document before the delete
          /\ writes[Len(writes)].op = "update_one"
          /\ ~writes[Len(writes)].matched
          /\ \E k \in (writes[Len(writes)].at + 1)..Len(writes) :
                writes[k].op = "delete_one" /\ writes[k].oid = oid
    /\ find_one(ads, oid) = None

(***************************************************************************)
(* C17, as claimed.  delete_ad removes exactly the record with the given   *)
(* id and answers success when a record was removed; it answers 404 'Ad    *)
(* not found', storage unchanged, when no record has that id or no         *)
(* storage is configured; after a delete, a later fetch, toggle or delete  *)
(* of the same id answers 404 (the storage calls succeeding).              *)
(***************************************************************************)
C17_DeleteOr404 ==
    /\ [][(delete_ad /\ call'.delete_ok) =>
            IF database = "none" \/ NoSuchAd
            THEN ret' = NotFound /\ ads' = ads
            ELSE /\ ret'.kind = "ok"
                 /\ ads' = SelectSeq(ads, LAMBDA ad : ad._id # ObjectId(call'.ad_id).value)
                 /\ Len(ads') = Len(ads) - 1]_vars
    /\ [](\A oid \in 1..Len(OidTexts) : Deleted(oid) => AfterDelete(oid))

(***************************************************************************)
(* C17, amended.  delete_ad removes exactly the record with the given id   *)
(* and answers success when a record was removed; it answers 404 'Ad not   *)
(* found', storage unchanged, when the id is a valid ObjectId that no      *)
(* record has or no storage is configured; with storage configured, an     *)
(* ad_id that is not a valid ObjectId, or a storage error, is answered     *)
(* 500 'Failed to delete ad', storage unchanged.  After a delete, a later  *)
(* fetch, toggle or delete of the same id answers 404 (the storage calls   *)
(* succeeding).                                                            *)
(***************************************************************************)
C17_DeleteOr404Or500 ==
    /\ [][delete_ad =>
            IF database = "none"
            THEN ret' = NotFound /\ ads' = ads
            ELSE IF ObjectId(call'.ad_id).kind = "raise" \/ ~call'.delete_ok
            THEN ret' = HTTPException(500, "Failed to delete ad") /\ ads' = ads
            ELSE IF NoSuchAd
            THEN ret' = NotFound /\ ads' = ads
            ELSE /\ ret'.kind = "ok" /\ ret'.message = "Ad deleted successfully"
                 /\ ads' = SelectSeq(ads, LAMBDA ad : ad._id # ObjectId(call'.ad_id).value)
                 /\ Len(ads') = Len(ads) - 1]_vars
    /\ [](\A oid \in 1..Len(OidTexts) : Deleted(oid) => AfterDelete(oid))

\* A record was deleted, the other was kept, and a later fetch of the
\* deleted one was answered 404.
C17_Witness ==
    /\ Deleted(1) /\ Len(ads) = 1 /\ ads[1]._id = 2
    /\ AnsweredFor("get_ad_by_id", 1) /\ call.find_ok /\ ret = NotFound

(***************************************************************************)
(* C18.  Every variation generate_ad_variations returns, on the fallback   *)
(* path and on the AI path, carries the platform value and the tone value  *)
(* of the request, whatever the provider's reply contains.                 *)
(***************************************************************************)
C18_PlatformAndToneEchoed ==
    Returned =>
        \A i \in 1..Len(engine.value) :
            /\ engine.value[i].platform = req.platform
            /\ engine.value[i].tone = req.tone

\* The provider's entry names a platform and a tone of its own, and the
\* variation carries the request's.
C18_Witness ==
    /\ Returned /\ ~FallbackPath /\ engine.value # <<>>
    /\ "platform" \in DOMAIN EntriesGiven[1].m /\ "tone" \in DOMAIN EntriesGiven[1].m
    /\ EntriesGiven[1].m["platform"].s # <<"m", "e", "t", "a">>
    /\ EntriesGiven[1].m["tone"].s # tone_value(req.tone)
    /\ req.platform = "meta"
    /\ engine.value[1].platform = "meta" /\ engine.value[1].tone = req.tone

(***************************************************************************)
(* C19.  _get_business_context answers for every (name, desc): the         *)
(* automotive context exactly when an automotive keyword occurs, in any    *)
(* case, in the name or the description; otherwise the e-commerce context  *)
(* exactly when an e-commerce keyword occurs; otherwise the general        *)
(* context.  Automotive wins when words of both lists occur.               *)
(***************************************************************************)

\* the characters c and d are the same letter in either case, or the same
\* character
SameIgnoringCase(c, d) ==
    \/ c = d
    \/ \E k \in 1..Len(UpperCase) : {c, d} \subseteq {UpperCase[k], LowerCase[k]}

\* word occurs somewhere in text, case ignored
OccursIn(word, text) ==
    \E at \in 0..(Len(text) - Len(word)) :
        \A j \in 1..Len(word) : SameIgnoringCase(text[at + j], word[j])

Mentions(words) ==
    \E word \in words : OccursIn(word, call.name) \/ OccursIn(word, call.desc)

ContextAnswered == call.fn = "_get_business_context" /\ ret # None

C19_BusinessContextClassified ==
    ContextAnswered =>
        /\ ret.kind = "return"
        /\ ret.value \in {"AUTOMOTIVE CONTEXT", "ECOMMERCE CONTEXT", "GENERAL BUSINESS CONTEXT"}
        /\ ret.value = "AUTOMOTIVE CONTEXT" <=> Mentions(AutomotiveWords)
        /\ ret.value = "ECOMMERCE CONTEXT" <=>
               (~Mentions(AutomotiveWords) /\ Mentions(EcommerceWords))
        /\ ret.value = "GENERAL BUSINESS CONTEXT" <=>
               (~Mentions(AutomotiveWords) /\ ~Mentions(EcommerceWords))

\* Words of both lists occur, the automotive one in capitals inside a longer
\* word, and the answer is the automotive context.
C19_Witness ==
    /\ ContextAnswered
    /\ call.name = <<"S", "C", "A", "R", "F">>
    /\ Mentions(EcommerceWords)
    /\ ret = Return("AUTOMOTIVE CONTEXT")

(***************************************************************************)
(* C20.  On the AI path, for every entry taken from the provider's         *)
(* variations and every field of the platform: a field the entry lacks is  *)
(* in the variation with the field's fixed default, hence neither absent   *)
(* nor null; a field the entry supplies is passed on unchanged.  Every     *)
(* variation is made from the entry at its position.                       *)
(***************************************************************************)

\* the value is the list of count copies of the text
Copies(v, count, text) ==
    /\ v.t = "list"
    /\ Len(v.items) = count
    /\ \A k \in 1..count : v.items[k] = Str(text)

\* the value is the fixed default of the platform's field
IsDefault(v, platform, field) ==
    CASE field = "headlines" -> Copies(v, 3, <<"D", "e", "f", "a", "u", "l", "t", " ", "h", "e", "a", "d", "l", "i", "n", "e">>)
      [] field = "descriptions" -> Copies(v, 2, <<"D", "e", "f", "a", "u", "l", "t", " ", "d", "e", "s", "c", "r", "i", "p", "t", "i", "o", "n">>)
      [] field = "shortHeadline" -> v = Str(<<"D", "e", "f", "a", "u", "l", "t", " ", "s", "h", "o", "r", "t">>)
      [] field = "longHeadline" -> v = Str(<<"D", "e", "f", "a", "u", "l", "t", " ", "l", "o", "n", "g", " ", "h", "e", "a", "d", "l", "i", "n", "e">>)
      [] field = "primary" -> v = Str(<<"D", "e", "f", "a", "u", "l", "t", " ", "p", "r", "i", "m", "a", "r", "y", " ", "t", "e", "x", "t">>)
      [] field = "headline" -> v = Str(<<"D", "e", "f", "a", "u", "l", "t", " ", "h", "e", "a", "d", "l", "i", "n", "e">>)
      [] field = "description" -> v = Str(<<"D", "e", "f", "a", "u", "l", "t", " ", "d", "e", "s", "c">>)
      [] field = "caption" -> v = Str(<<"D", "e", "f", "a", "u", "l", "t", " ", "c", "a", "p", "t", "i", "o", "n", " ", "#", "h", "a", "s", "h", "t", "a", "g">>)

C20_MissingFieldsGetDefaults ==
    (Returned /\ ~FallbackPath) =>
        /\ Len(engine.value) <= Len(EntriesGiven)
        /\ \A i \in 1..Len(engine.value) :
            \A f \in DOMAIN PLATFORM_LIMITS[req.platform].fields :
                /\ f \in DOMAIN engine.value[i]
                /\ IF f \in DOMAIN EntriesGiven[i].m
                   THEN engine.value[i][f] = EntriesGiven[i].m[f]
                   ELSE /\ IsDefault(engine.value[i][f], req.platform, f)
                        /\ engine.value[i][f] # Null

\* A meta entry with a primary text and nothing else: the headline and the
\* description are the defaults, the primary text is the entry's.
C20_Witness ==
    /\ Returned /\ ~FallbackPath /\ engine.value # <<>>
    /\ req.platform = "meta"
    /\ DOMAIN EntriesGiven[1].m \cap {"primary", "headline", "description"} = {"primary"}
    /\ engine.value[1].primary = EntriesGiven[1].m["primary"]
    /\ engine.value[1].headline = Str(<<"D", "e", "f", "a", "u", "l", "t", " ", "h", "e", "a", "d", "l", "i", "n", "e">>)
    /\ engine.value[1].description = Str(<<"D", "e", "f", "a", "u", "l", "t", " ", "d", "e", "s", "c">>)

(***************************************************************************)
(* Notions for _extract_offer, with 1-based positions in the description.  *)
(***************************************************************************)

OfferAnswered == call.fn = "_extract_offer" /\ ret # None

\* a dollar sign followed by a character that is no whitespace, comma or
\* period
AmountAt(d, i) ==
    /\ d[i] = "$"
    /\ i < Len(d)
    /\ d[i + 1] \notin (Whitespace \cup {",", "."})

\* word stands at positions a..(a + Len(word) - 1) of d, case ignored
WordAt(d, a, word) ==
    /\ a + Len(word) - 1 <= Len(d)
    /\ \A j \in 1..Len(word) : SameIgnoringCase(d[a + j - 1], word[j])

\* d[i..e] is digits, then at most one whitespace, then mo or down
TermFromTo(d, i, e) ==
    \E j \in i..e : \E a \in {j + 1, j + 2} : \E word \in {<<"m", "o">>, <<"d", "o", "w", "n">>} :
        /\ \A k \in i..j : d[k] \in Digits
        /\ WordAt(d, a, word)
        /\ a = j + 2 => d[j + 1] \in Whitespace
        /\ e = a + Len(word) - 1

OfferStarts(d) ==
    {i \in 1..Len(d) : AmountAt(d, i) \/ \E e \in i..Len(d) : TermFromTo(d, i, e)}

FirstOffer(d) == CHOOSE i \in OfferStarts(d) : \A k \in OfferStarts(d) : i <= k

\* e is the last position before the first character of stops after i, or
\* the end of d
RunsTo(d, i, e, stops) ==
    /\ e \in i..Len(d)
    /\ \A k \in (i + 1)..e : d[k] \notin stops
    /\ e = Len(d) \/ d[e + 1] \in stops

NoOfferText == <<"S", "p", "e", "c", "i", "a", "l", " ", "p", "r", "i", "c", "i", "n", "g", " ", "a", "v", "a", "i", "l", "a", "b", "l", "e">>

(***************************************************************************)
(* C21, as claimed.  _extract_offer returns the first match: a dollar      *)
(* amount is the dollar sign and what follows up to the next whitespace,   *)
(* comma or period; without a match the answer is 'Special pricing         *)
(* available'.                                                             *)
(***************************************************************************)
C21_AmountEndsAtSpaceCommaPeriod ==
    OfferAnswered =>
        LET d == call.desc
        IN  IF OfferStarts(d) = {} THEN ret = Return(NoOfferText)
            ELSE LET i == FirstOffer(d)
                 IN  \E e \in i..Len(d) :
                        /\ ret = Return(SubSeq(d, i, e))
                        /\ IF AmountAt(d, i)
                           THEN RunsTo(d, i, e, Whitespace \cup {",", "."})
                           ELSE TermFromTo(d, i, e)

(***************************************************************************)
(* C21, amended.  _extract_offer returns the first match: a dollar amount  *)
(* is the dollar sign, a following character that is no whitespace, comma  *)
(* or period, and everything up to the next period or the end of the       *)
(* description, spaces and commas included; a term is digits, at most one  *)
(* whitespace, and mo or down in any case (month is matched as mo).        *)
(* Without a match the answer is 'Special pricing available'.              *)
(***************************************************************************)
C21_AmountEndsAtPeriod ==
    OfferAnswered =>
        LET d == call.desc
        IN  IF OfferStarts(d) = {} THEN ret = Return(NoOfferText)
            ELSE LET i == FirstOffer(d)
                 IN  \E e \in i..Len(d) :
                        /\ ret = Return(SubSeq(d, i, e))
                        /\ IF AmountAt(d, i)
                           THEN RunsTo(d, i, e, {"."})
                           ELSE TermFromTo(d, i, e)

\* A term comes first and an amount later: the term is the answer.
C21_Witness ==
    /\ OfferAnswered
    /\ OfferStarts(call.desc) # {}
    /\ \E i \in OfferStarts(call.desc) : AmountAt(call.desc, i) /\ i > FirstOffer(call.desc)
    /\ ret = Return(<<"1", "2", " ", "M", "o">>)

(***************************************************************************)
(* C22.  init_database never raises.  When creating the client, taking the *)
(* database handle or the ping fails, db.client and db.database are both   *)
(* None afterwards; when all succeed both are set.  So once init_database  *)
(* has completed, db.client is None exactly when db.database is None.      *)
(***************************************************************************)
InitCompleted == call # None /\ call.fn = "init_database" /\ call.at = "done"

C22_InitDatabaseAllOrNothing ==
    InitCompleted =>
        /\ ret # None /\ ret.kind = "return"
        /\ call.error # "none" => (client = "none" /\ database = "none")
        /\ call.error = "none" => (client # "none" /\ database # "none")
        /\ client = "none" <=> database = "none"

\* The ping timed out on a db object that was connected before, and both
\* fields were reset.
C22_Witness ==
    /\ InitCompleted
    /\ call.error = "ServerSelectionTimeoutError"
    /\ call.before = [client |-> "connected", database |-> "connected"]
    /\ client = "none" /\ database = "none"

(***************************************************************************)
(* C23.  A history request whose limit is above 100 is answered            *)
(* successfully with the limit capped at 100: the storage query is issued  *)
(* with limit exactly 100, and storage is never queried with a limit above *)
(* 100.                                                                    *)
(***************************************************************************)
HistoryRequested ==
    /\ call # None /\ ret # None
    /\ call.fn \in {"get_ad_history", "validation"}

C23_LimitAbove100Capped ==
    HistoryRequested =>
        /\ \A n \in call.queried : n <= HistoryLimitCap
        /\ call.limit > HistoryLimitCap =>
              /\ ret.kind = "ok" /\ ret.success
              /\ database # "none" => call.queried = {HistoryLimitCap}

MadeFrom(variation, entry, platform) ==
    \A f \in DOMAIN PLATFORM_LIMITS[platform].fields :
        IF f \in DOMAIN entry.m
        THEN variation[f] = entry.m[f]
        ELSE \A other \in {EntryFull, EntryOver, EntryPart} :
                f \in DOMAIN other.m => variation[f] # other.m[f]

C25_FirstEntriesInOrder ==
    (Returned /\ ~FallbackPath) =>
        /\ Len(engine.value) <= req.variants
        /\ Len(engine.value) = Smaller(Len(EntriesGiven), req.variants)
        /\ \A i \in 1..Len(engine.value) :
              MadeFrom(engine.value[i], EntriesGiven[i], req.platform)

\* Three entries that differ and two variants asked for: the variations
\* are made from the first and the second entry, in that order.
C25_Witness ==
    /\ Returned /\ ~FallbackPath
    /\ req.variants = 2 /\ req.platform = "google_display"
    /\ EntriesGiven = <<EntryPart, EntryEmpty, EntryFull>>
    /\ Len(engine.value) = 2
    /\ engine.value[1].shortHeadline = EntryPart.m["shortHeadline"]
    /\ engine.value[2].shortHeadline # EntryPart.m["shortHeadline"]

(***************************************************************************)
(* Notions for the benefit text of the fallback generator; it is seen in   *)
(* the second headline of a google_search variation, cut to 30 characters. *)
(***************************************************************************)
HasPeriod(d) == \E k \in 1..Len(d) : d[k] = "."

\* the part of d before its first period
BeforeFirstPeriod(d) ==
    LET k == CHOOSE k \in 1..Len(d) : d[k] = "." /\ \A j \in 1..(k - 1) : d[j] # "."
    IN  SubSeq(d, 1, k - 1)

FallbackSearchResult ==
    Returned /\ FallbackPath /\ req.platform = "google_search"

SecondHeadlineIs(benefit) ==
    \A i \in 1..Len(engine.value) :
        engine.value[i].headlines.items[2] = Str(_truncate(benefit, 30))

(***************************************************************************)
(* C26, as claimed.  In the fallback generator the benefit is the part of  *)
(* the description before its first '.', and the whole description when    *)
(* the description has no '.'.                                             *)
(***************************************************************************)
C26_BenefitElseWholeDescription ==
    FallbackSearchResult =>
        SecondHeadlineIs(IF HasPeriod(req.desc) THEN BeforeFirstPeriod(req.desc) ELSE req.desc)

(***************************************************************************)
(* C26, amended.  In the fallback generator the benefit is the part of the *)
(* description before its first '.', and the fixed text 'Get more for      *)
(* less' when the description has no '.'.                                  *)
(***************************************************************************)
C26_BenefitElseGetMoreForLess ==
    FallbackSearchResult =>
        SecondHeadlineIs(IF HasPeriod(req.desc) THEN BeforeFirstPeriod(req.desc)
                         ELSE <<"G", "e", "t", " ", "m", "o", "r", "e", " ", "f", "o", "r", " ", "l", "e", "s", "s">>)

\* A description without a period: the second headline is 'Get more for
\* less', and nothing of the description.
C26_Witness ==
    /\ FallbackSearchResult /\ engine.value # <<>>
    /\ ~HasPeriod(req.desc)
    /\ engine.value[1].headlines.items[2] = Str(<<"G", "e", "t", " ", "m", "o", "r", "e", " ", "f", "o", "r", " ", "l", "e", "s", "s">>)

(***************************************************************************)
(* Notions for the fence of the provider's content, with 1-based           *)
(* positions.                                                              *)
(***************************************************************************)
Backticks == <<"BT", "BT", "BT">>

JsonLabel == <<"j", "s", "o", "n">>

\* the first position at or after from where marker stands in c, or 0
FirstAt(c, marker, from) ==
    LET at == {i \in from..(Len(c) - Len(marker) + 1) :
                  SubSeq(c, i, i + Len(marker) - 1) = marker}
    IN  IF at = {} THEN 0 ELSE CHOOSE i \in at : \A k \in at : i <= k

\* what the engine gives for the request handled when the content is text
OutcomeFor(text) ==
    generate_ad_variations(TRUE, req, Return(ApiResponse(Str(text))), SomeIds)

\* Any fenced block counts, labelled json or not: the text after the first
\* ``` (and its json label) up to the next ```; all of c without such a block.
TextOfAnyFence(c) ==
    LET open  == FirstAt(c, Backticks, 1)
        label == open # 0 /\ FirstAt(c, Backticks \o JsonLabel, 1) = open
        start == IF label THEN open + 7 ELSE open + 3
        close == IF open = 0 THEN 0 ELSE FirstAt(c, Backticks, start)
    IN  IF close = 0 THEN c ELSE SubSeq(c, start, close - 1)

\* Only ```json opens a fence: the text after the first ```json up to the
\* next ```, or up to the last character but one when no ``` follows; all
\* of c when ```json does not occur.
TextOfJsonFence(c) ==
    LET open  == FirstAt(c, Backticks \o JsonLabel, 1)
        close == IF open = 0 THEN 0 ELSE FirstAt(c, Backticks, open + 7)
    IN  IF open = 0 THEN c
        ELSE IF close = 0 THEN SubSeq(c, open + 7, Len(c) - 1)
        ELSE SubSeq(c, open + 7, close - 1)

(***************************************************************************)
(* C27, as claimed.  When the content contains a fenced code block the     *)
(* parser decodes only the text inside the first fence, and otherwise the  *)
(* whole content; valid JSON wrapped in a fence gives AI variations.       *)
(***************************************************************************)
C27_AnyFenceIsOpened ==
    (Replied /\ ~ContentMissing) =>
        SameOutcome(engine, OutcomeFor(TextOfAnyFence(ReplyContent)))

(***************************************************************************)
(* C27, amended.  When the content contains the marker ```json the parser  *)
(* decodes only the text after the first such marker up to the next ```    *)
(* (up to the last character but one when no ``` follows), and otherwise   *)
(* the whole content, a fence without the json label included; valid JSON  *)
(* wrapped in a closed ```json fence gives AI variations.                  *)
(***************************************************************************)
C27_OnlyJsonFenceIsOpened ==
    (Replied /\ ~ContentMissing) =>
        /\ SameOutcome(engine, OutcomeFor(TextOfJsonFence(ReplyContent)))
        /\ ReplyContent \in {Fenced(<<"{", "J_MANY", "}">>),
                            <<"H", "i", "\n">> \o Fenced(<<"{", "J_MANY", "}">>) \o <<"\n", "o", "k">>}
             => /\ engine.kind = "return"
                /\ Len(engine.value) = Smaller(ReplyEntries, req.variants)
                /\ \A i \in 1..Len(engine.value) :
                      MadeFrom(engine.value[i], EntryFull, req.platform)

\* Valid JSON in a ```json fence with prose around it: the variations are
\* the provider's, not the fallback's.
C27_Witness ==
    /\ Replied /\ ~ContentMissing
    /\ FirstAt(ReplyContent, Backticks \o JsonLabel, 1) > 1
    /\ FirstAt(ReplyContent, Backticks, FirstAt(ReplyContent, Backticks \o JsonLabel, 1) + 7) > 0
    /\ engine.kind = "return" /\ engine.value # <<>>
    /\ ~SameOutcome(engine, FallbackOutcome)
    /\ MadeFrom(engine.value[1], EntryFull, req.platform)

(***************************************************************************)
(* C28.  All records of one fallback result are identical in every field   *)
(* except id: any two variations _create_fallback_variations returns for   *)
(* a request have equal platform, tone and text fields, whatever their     *)
(* index.                                                                  *)
(***************************************************************************)
C28_FallbackRecordsAlike ==
    (Returned /\ FallbackPath) =>
        \A i, j \in 1..Len(engine.value) :
            /\ DOMAIN engine.value[i] = DOMAIN engine.value[j]
            /\ \A f \in DOMAIN engine.value[i] \ {"id"} :
                  engine.value[i][f] = engine.value[j][f]

\* Two records of a fallback result with different ids and the same
\* texts.
C28_Witness ==
    /\ Returned /\ FallbackPath /\ Len(engine.value) >= 2
    /\ engine.value[1].id # engine.value[2].id
    /\ [engine.value[1] EXCEPT !.id = 0] = [engine.value[2] EXCEPT !.id = 0]

(***************************************************************************)
(* C29.  _truncate is idempotent: for every text t and every limit n >= 0, *)
(* _truncate(_truncate(t, n), n) equals _truncate(t, n).                   *)
(***************************************************************************)
TruncateAnswered == call.fn = "_truncate" /\ ret # None

C29_TruncateIdempotent ==
    TruncateAnswered =>
        /\ ret.kind = "return"
        /\ _truncate(ret.value, call.max_length) = ret.value

\* A text of several words was cut at a space to fewer words that still
\* hold a space, and cutting the result again changes nothing.
C29_Witness ==
    /\ TruncateAnswered
    /\ Len(call.text) > call.max_length
    /\ ret.value # <<>> /\ Len(ret.value) < call.max_length
    /\ \E k \in 1..Len(ret.value) : ret.value[k] = " "
    /\ _truncate(ret.value, call.max_length) = ret.value

(***************************************************************************)
(* C30.  Under any interleaving of toggle_favorite with delete_ad on the   *)
(* same id, a toggle that answers success with is_favorite = v found the   *)
(* record in storage at the moment of its update, which then holds v; and  *)
(* a toggle never brings a deleted record back into storage.               *)
(***************************************************************************)
C30_ToggleSuccessMeansStored ==
    /\ \A k \in 1..Len(writes) :
          writes[k].op = "update_one" =>
              /\ writes[k].matched
              /\ Len(writes) = k => StoredFavorite(ads, writes[k].oid) = writes[k].is_favorite
    /\ \A i \in 1..Len(OidTexts) : Deleted(i) => find_one(ads, i) = None

====
